---------------------------- MODULE Spec2Model ----------------------------
(***************************************************************************)
(* Model of the language-understanding core of ai-task-manager:            *)
(*   src/src/services/ai_service.py    orchestrator + deterministic        *)
(*                                     extractor                           *)
(*   src/src/services/ai_providers.py  OpenAI / Google provider operations *)
(*                                                                         *)
(* Python strings are sequences of one-character tokens.  An ASCII         *)
(* character is the token itself ("a", " ", ":"); a non-ASCII character is *)
(* the token "uXXXX" of its code point, e.g.                               *)
(*   u4eca u5929 = jin tian  (today)      u660e u5929 = ming tian (tomorrow)*)
(*   u540e u5929 = hou tian  (day after)  u70b9       = dian (o'clock)     *)
(*   u4e0a u5348 = shang wu  (morning)    u4e0b u5348 = xia wu (afternoon) *)
(*   u665a u4e0a = wan shang (evening)    u7d27 u6025 = jin ji (urgent)    *)
(*   u91cd u8981 = zhong yao (important)  u4e0d u6025 = bu ji (no hurry)   *)
(*   u6709 u7a7a = you kong  (when free)  u9ad8/u4e2d/u4f4e = high/mid/low *)
(*   u672c u5468 = ben zhou  (this week)  u4e0b u5468 = xia zhou (next wk) *)
(***************************************************************************)
EXTENDS Integers, Sequences, FiniteSets, TLC

VARIABLES
    settings,       \* config.Settings: ai_provider, openai_api_key, google_ai_api_key
    importable,     \* environment: does each provider SDK import / client construct
    providers,      \* AIService.providers, built by AIService.__init__
    now,            \* datetime.now() read by the call in progress
    pc,             \* position of the orchestrator call: idle, trying, post, done
    func_name,      \* the orchestrator operation in progress
    args,           \* its arguments: [text, description]
    index,          \* position of the for loop of _try_providers in providers
    invoked,        \* providers invoked so far in this call, with the remote
                    \* response each got and its outcome
    result,         \* what _try_providers returned
    used_fallback,  \* did this call run the deterministic fallback
    ret,            \* what the caller gets: a returned value or a raised exception
    failed_earlier, \* history: the providers that raised in a call that has ended
    _ai_service,    \* the module global _ai_service: 0 (None) or an instance
    constructions,  \* how many times AIService() was called; the n-th call
                    \* makes instance n
    caller,         \* per thread in get_ai_service: its position and what it got
    tasks,          \* the task store: the title of each task id in the table
    collection,     \* the vector index: the ids in the Chroma collection
    next_id,        \* the id the next created task gets (stands for a fresh uuid)
    deleted,        \* history: the ids whose deletion was committed
    last            \* the last store or search operation, with what it returned

\* the state of one AIService and of the call in progress on it
service_vars == << settings, importable, providers, now, pc, func_name, args, index,
                   invoked, result, used_fallback, ret, failed_earlier >>

\* the state of the singleton and of the threads that ask for it
singleton_vars == << _ai_service, constructions, caller >>

\* the state of the task store and of the vector index
store_vars == << tasks, collection, next_id, deleted, last >>

vars == << service_vars, singleton_vars, store_vars >>

-----------------------------------------------------------------------------
(* Characters and strings                                                  *)

Digits == <<"0","1","2","3","4","5","6","7","8","9">>

IsDigit(c) == \E i \in 1..Len(Digits) : Digits[i] = c

\* int() of one decimal digit
DigitVal(c) == (CHOOSE i \in 1..Len(Digits) : Digits[i] = c) - 1

\* the characters re's \s and str.strip() treat as whitespace
IsSpace(c) == c \in {" ", "\t", "\n", "\r"}

\* the lower-case letter of each capital
LowerOf ==
    [ A |-> "a", B |-> "b", C |-> "c", D |-> "d", E |-> "e", F |-> "f", G |-> "g",
      H |-> "h", I |-> "i", J |-> "j", K |-> "k", L |-> "l", M |-> "m", N |-> "n",
      O |-> "o", P |-> "p", Q |-> "q", R |-> "r", S |-> "s", T |-> "t", U |-> "u",
      V |-> "v", W |-> "w", X |-> "x", Y |-> "y", Z |-> "z" ]

\* str.lower() of one character
LowerChar(c) == (LowerOf @@ (c :> c))[c]

\* str.lower()
RECURSIVE lower(_)
lower(s) == IF s = <<>> THEN <<>> ELSE <<LowerChar(Head(s))>> \o lower(Tail(s))

\* Python's  kw in s  on strings
Contains(s, kw) ==
    \E i \in 1..(Len(s) - Len(kw) + 1) : \A j \in 1..Len(kw) : s[i + j - 1] = kw[j]

\* any(word in content for word in keywords)
AnyIn(content, keywords) ==
    \E k \in 1..Len(keywords) : Contains(content, keywords[k])

\* str.strip()
RECURSIVE lstrip_ws(_)
lstrip_ws(s) == IF s # <<>> /\ IsSpace(Head(s)) THEN lstrip_ws(Tail(s)) ELSE s

RECURSIVE rstrip_ws(_)
rstrip_ws(s) ==
    IF s # <<>> /\ IsSpace(s[Len(s)]) THEN rstrip_ws(SubSeq(s, 1, Len(s) - 1)) ELSE s

strip(s) == rstrip_ws(lstrip_ws(s))

\* Python values: None, str, list, dict, tuple
None == [k |-> "none"]

Str(s) == [k |-> "str", s |-> s]

List(items) == [k |-> "list", items |-> items]

\* a dict is a function from its keys to values
Dict(d) == [k |-> "dict", d |-> d]

Tuple(items) == [k |-> "tuple", items |-> items]

\* bool(v): None, "", [] and {} are falsy; a tuple built here is never empty
Truthy(v) ==
    CASE v.k = "none" -> FALSE
      [] v.k = "str" -> v.s # <<>>
      [] v.k = "list" -> v.items # <<>>
      [] v.k = "dict" -> DOMAIN v.d # {}
      [] OTHER -> TRUE

\* f"{title} {description or ''}"
TitleAndDescription(title, description) ==
    title \o <<" ">> \o (IF Truthy(description) THEN description.s ELSE <<>>)

-----------------------------------------------------------------------------
(* Priority inference and normalisation                                    *)

\* TaskPriority values
LOW == <<"l","o","w">>

MEDIUM == <<"m","e","d","i","u","m">>

HIGH == <<"h","i","g","h">>

TaskPriorityValues == {LOW, MEDIUM, HIGH}

high_keywords ==
    << <<"u7d27","u6025">>,
       <<"u91cd","u8981">>,
       <<"u5f88","u91cd","u8981">>,
       <<"u5c3d","u5feb">>,
       <<"u7acb","u5373">>,
       <<"u5fc5","u987b">>,
       <<"u4f18","u5148","u7ea7","u9ad8">>,
       <<"u9ad8","u4f18","u5148","u7ea7">>,
       <<"u","r","g","e","n","t">>,
       <<"i","m","p","o","r","t","a","n","t">>,
       <<"c","r","i","t","i","c","a","l">>,
       <<"a","s","a","p">>,
       <<"a","s"," ","s","o","o","n"," ","a","s"," ","p","o","s","s","i","b","l","e">>,
       <<"h","i","g","h"," ","p","r","i","o","r","i","t","y">>,
       <<"p","r","i","o","r","i","t","y"," ","h","i","g","h">> >>

low_keywords ==
    << <<"u4e0d","u6025">>,
       <<"u6709","u7a7a">>,
       <<"u968f","u610f">>,
       <<"u4f11","u95f2">>,
       <<"u4f18","u5148","u7ea7","u4f4e">>,
       <<"u4f4e","u4f18","u5148","u7ea7">>,
       <<"l","o","w"," ","p","r","i","o","r","i","t","y">>,
       <<"p","r","i","o","r","i","t","y"," ","l","o","w">>,
       <<"w","h","e","n","e","v","e","r">>,
       <<"o","p","t","i","o","n","a","l">>,
       <<"l","e","i","s","u","r","e">> >>

\* the reasoning _get_fallback_priority gives with each priority
Reason ==
    [ high |->
          <<"B","a","s","e","d"," ","o","n"," ","k","e","y","w","o","r","d","s",":"," ","c","o","n","t","a","i","n","s"," ","u","r","g","e","n","t","/","i","m","p","o","r","t","a","n","t"," ","w","o","r","d","s">>,
      low |->
          <<"B","a","s","e","d"," ","o","n"," ","k","e","y","w","o","r","d","s",":"," ","c","o","n","t","a","i","n","s"," ","l","o","w"," ","p","r","i","o","r","i","t","y"," ","w","o","r","d","s">>,
      medium |->
          <<"B","a","s","e","d"," ","o","n"," ","k","e","y","w","o","r","d","s",":"," ","d","e","f","a","u","l","t"," ","m","e","d","i","u","m"," ","p","r","i","o","r","i","t","y">> ]

\* seeded fault: the low triggers are looked at first
get_fallback_priority_low_first(title, description) ==
    LET content == lower(TitleAndDescription(title, description))
    IN  IF AnyIn(content, low_keywords) THEN <<LOW, Reason.low>>
        ELSE IF AnyIn(content, high_keywords) THEN <<HIGH, Reason.high>>
        ELSE <<MEDIUM, Reason.medium>>

_get_fallback_priority(title, description) ==
    LET content == lower(TitleAndDescription(title, description))
    IN  IF AnyIn(content, high_keywords) THEN <<HIGH, Reason.high>>
        ELSE IF AnyIn(content, low_keywords) THEN <<LOW, Reason.low>>
        ELSE <<MEDIUM, Reason.medium>>

\* the lists _normalize_priority looks a value up in
normalize_lists ==
    [ high |->
          << <<"h","i","g","h">>,
             <<"h">>,
             <<"u9ad8">>,
             <<"u9ad8","u4f18","u5148","u7ea7">>,
             <<"u4f18","u5148","u7ea7","u9ad8">> >>,
      medium |->
          << <<"m","e","d","i","u","m">>,
             <<"m","e","d">>,
             <<"u4e2d">>,
             <<"u4e2d","u4f18","u5148","u7ea7">>,
             <<"u4f18","u5148","u7ea7","u4e2d">> >>,
      low |->
          << <<"l","o","w">>,
             <<"l">>,
             <<"u4f4e">>,
             <<"u4f4e","u4f18","u5148","u7ea7">>,
             <<"u4f18","u5148","u7ea7","u4f4e">> >> ]

InList(s, list) == \E i \in 1..Len(list) : list[i] = s

\* value is None or a str; the result is None or a str
_normalize_priority(value) ==
    IF ~Truthy(value) THEN None
    ELSE LET normalized == lower(strip(value.s))
         IN  IF InList(normalized, normalize_lists.high) THEN Str(HIGH)
             ELSE IF InList(normalized, normalize_lists.medium) THEN Str(MEDIUM)
             ELSE IF InList(normalized, normalize_lists.low) THEN Str(LOW)
             ELSE IF Contains(normalized, <<"u9ad8">>) THEN Str(HIGH)
             ELSE IF Contains(normalized, <<"u4f4e">>) THEN Str(LOW)
             ELSE IF Contains(normalized, <<"u4e2d">>) THEN Str(MEDIUM)
             ELSE Str(normalized)

-----------------------------------------------------------------------------
(* Regular-expression helpers: re.search returns the leftmost match, and   *)
(* \d{1,2} and \s* are greedy                                              *)

\* \d{d} matches at position i
DigitsAt(s, i, d) == i >= 1 /\ i + d - 1 <= Len(s) /\ \A j \in i..(i + d - 1) : IsDigit(s[j])

\* int() of the d digits at position i (d is 1 or 2)
IntAt(s, i, d) ==
    IF d = 1 THEN DigitVal(s[i]) ELSE 10 * DigitVal(s[i]) + DigitVal(s[i + 1])

\* the literal lit matches at position i
StartsAt(s, i, lit) ==
    i >= 1 /\ i + Len(lit) - 1 <= Len(s) /\ \A j \in 1..Len(lit) : s[i + j - 1] = lit[j]

\* the position after \s* matched greedily from position i
RECURSIVE SkipWs(_, _)
SkipWs(s, i) == IF i <= Len(s) /\ IsSpace(s[i]) THEN SkipWs(s, i + 1) ELSE i

\* the least element of a non-empty set of positions
Leftmost(S) == CHOOSE i \in S : \A j \in S : i <= j

\* the words of the time patterns: pm, p.m., am, a.m., shang wu, xia wu, wan shang, dian
TimeWords ==
    [ pm |-> <<"p","m">>,
      p_m_ |-> <<"p",".","m",".">>,
      am |-> <<"a","m">>,
      a_m_ |-> <<"a",".","m",".">>,
      shang_wu |-> <<"u4e0a","u5348">>,
      xia_wu |-> <<"u4e0b","u5348">>,
      wan_shang |-> <<"u665a","u4e0a">>,
      dian |-> "u70b9" ]

\* (\d{1,2})\s*(?:<m1>|<m2>) matches at i with d digits
MeridiemAt(s, i, d, m1, m2) ==
    /\ DigitsAt(s, i, d)
    /\ LET j == SkipWs(s, i + d) IN StartsAt(s, j, m1) \/ StartsAt(s, j, m2)

\* re.search(r'(\d{1,2})\s*(?:<m1>|<m2>)', s): None, or group(1) as int
MeridiemSearch(s, m1, m2) ==
    LET starts == {i \in 1..Len(s) : \E d \in {1, 2} : MeridiemAt(s, i, d, m1, m2)}
    IN  IF starts = {} THEN None
        ELSE LET i == Leftmost(starts)
                 d == IF MeridiemAt(s, i, 2, m1, m2) THEN 2 ELSE 1
             IN  [k |-> "match", hour |-> IntAt(s, i, d)]

\* (\d{1,2}):(\d{2}) matches at i with d digits
ClockAt(s, i, d) ==
    /\ DigitsAt(s, i, d)
    /\ i + d <= Len(s) /\ s[i + d] = ":"
    /\ DigitsAt(s, i + d + 1, 2)

\* re.search(r'(\d{1,2}):(\d{2})', s): None, or both groups and match.end()
ClockSearch(s) ==
    LET starts == {i \in 1..Len(s) : \E d \in {1, 2} : ClockAt(s, i, d)}
    IN  IF starts = {} THEN None
        ELSE LET i == Leftmost(starts)
                 d == IF ClockAt(s, i, 2) THEN 2 ELSE 1
             IN  [k |-> "match", hour |-> IntAt(s, i, d),
                  minute |-> IntAt(s, i + d + 1, 2), end |-> i + d + 3]

Periods == {TimeWords.shang_wu, TimeWords.xia_wu, TimeWords.wan_shang}

\* \s*(\d{1,2})<dian> matches from position i with d digits
HourDianAt(s, i, d) ==
    LET j == SkipWs(s, i) IN DigitsAt(s, j, d) /\ j + d <= Len(s) /\ s[j + d] = TimeWords.dian

\* the whole pattern matches at i, with the period p or (p = <<>>) without one
DianAt(s, i, p) ==
    /\ p # <<>> => StartsAt(s, i, p)
    /\ \E d \in {1, 2} : HourDianAt(s, i + Len(p), d)

\* re.search(r'(shangwu|xiawu|wanshang)?\s*(\d{1,2})dian', s)
DianSearch(s) ==
    LET starts == {i \in 1..Len(s) : \E p \in Periods \cup {<<>>} : DianAt(s, i, p)}
    IN  IF starts = {} THEN None
        ELSE LET i == Leftmost(starts)
                 p == IF \E q \in Periods : DianAt(s, i, q)
                      THEN CHOOSE q \in Periods : DianAt(s, i, q)
                      ELSE <<>>
                 j == SkipWs(s, i + Len(p))
                 d == IF HourDianAt(s, i + Len(p), 2) THEN 2 ELSE 1
             IN  [k |-> "match", period |-> p, hour |-> IntAt(s, j, d)]

\* text_lower[end:end+10], end being the 1-based position after the match
After10(s, end) ==
    SubSeq(s, end, IF end + 9 <= Len(s) THEN end + 9 ELSE Len(s))

-----------------------------------------------------------------------------
(* Time-of-day and relative-date resolution                                *)

\* the if statements of _parse_time_hint over the matches of its searches:
\* None or the tuple (hour, minute)
\* _parse_time_hint's if-chain with the period of the dian form left unread
time_hint_of_period_unread(text_lower, pm_match, am_match, time_match, match) ==
    IF pm_match # None
    THEN Tuple(<<IF pm_match.hour < 12 THEN pm_match.hour + 12 ELSE pm_match.hour, 0>>)
    ELSE IF am_match # None
    THEN Tuple(<<IF am_match.hour = 12 THEN 0 ELSE am_match.hour, 0>>)
    ELSE IF time_match # None
    THEN LET tail == After10(text_lower, time_match.end)
             hour == IF Contains(tail, TimeWords.pm)
                     THEN (IF time_match.hour < 12 THEN time_match.hour + 12
                           ELSE time_match.hour)
                     ELSE IF Contains(tail, TimeWords.am)
                     THEN (IF time_match.hour = 12 THEN 0 ELSE time_match.hour)
                     ELSE time_match.hour
         IN  Tuple(<<hour, time_match.minute>>)
    ELSE IF match # None
    THEN LET hour == IF match.period = <<>> /\ match.hour <= 12
                     THEN (IF match.hour < 12 THEN match.hour + 12 ELSE match.hour)
                     ELSE match.hour
         IN  Tuple(<<hour, 0>>)
    ELSE None

time_hint_of(text_lower, pm_match, am_match, time_match, match) ==
    IF pm_match # None
    THEN Tuple(<<IF pm_match.hour < 12 THEN pm_match.hour + 12 ELSE pm_match.hour, 0>>)
    ELSE IF am_match # None
    THEN Tuple(<<IF am_match.hour = 12 THEN 0 ELSE am_match.hour, 0>>)
    ELSE IF time_match # None
    THEN LET tail == After10(text_lower, time_match.end)
             hour == IF Contains(tail, TimeWords.pm)
                     THEN (IF time_match.hour < 12 THEN time_match.hour + 12
                           ELSE time_match.hour)
                     ELSE IF Contains(tail, TimeWords.am)
                     THEN (IF time_match.hour = 12 THEN 0 ELSE time_match.hour)
                     ELSE time_match.hour
         IN  Tuple(<<hour, time_match.minute>>)
    ELSE IF match # None
    THEN LET hour == IF match.period \in {TimeWords.xia_wu, TimeWords.wan_shang} /\ match.hour < 12
                     THEN match.hour + 12
                     ELSE IF match.period = <<>> /\ match.hour <= 12
                     THEN (IF match.hour < 12 THEN match.hour + 12 ELSE match.hour)
                     ELSE match.hour
         IN  Tuple(<<hour, 0>>)
    ELSE None

\* the four searches, on text_lower but for the last, which is on text
_parse_time_hint(text) ==
    time_hint_of(lower(text),
                 MeridiemSearch(lower(text), TimeWords.pm, TimeWords.p_m_),
                 MeridiemSearch(lower(text), TimeWords.am, TimeWords.a_m_),
                 ClockSearch(lower(text)),
                 DianSearch(text))

\* an outcome of a call: a value handed back, or an exception
Returns(v) == [k |-> "return", v |-> v]

Raises(exc) == [k |-> "raise", exc |-> exc]

\* a datetime: its date counted in days from the date of now, and the weekday
\* of that date (0 is Monday)
Datetime(day, weekday, hour, minute, second, microsecond) ==
    [k |-> "datetime", day |-> day, weekday |-> weekday, hour |-> hour,
     minute |-> minute, second |-> second, microsecond |-> microsecond]

\* dt + timedelta(days=n)
PlusDays(dt, n) ==
    [dt EXCEPT !.day = dt.day + n, !.weekday = (dt.weekday + n) % 7]

\* dt.replace(hour=, minute=, second=0, microsecond=0): datetime raises
\* ValueError for an hour outside 0..23 or a minute outside 0..59
Replace(dt, hour, minute) ==
    IF hour \in 0..23 /\ minute \in 0..59
    THEN Returns([dt EXCEPT !.hour = hour, !.minute = minute,
                            !.second = 0, !.microsecond = 0])
    ELSE Raises("ValueError")

\* weekday_map_en.items(), in insertion order
weekday_map_en ==
    << <<<<"m","o","n","d","a","y">>, 0>>,
       <<<<"t","u","e","s","d","a","y">>, 1>>,
       <<<<"w","e","d","n","e","s","d","a","y">>, 2>>,
       <<<<"t","h","u","r","s","d","a","y">>, 3>>,
       <<<<"f","r","i","d","a","y">>, 4>>,
       <<<<"s","a","t","u","r","d","a","y">>, 5>>,
       <<<<"s","u","n","d","a","y">>, 6>>,
       <<<<"m","o","n">>, 0>>,
       <<<<"t","u","e">>, 1>>,
       <<<<"w","e","d">>, 2>>,
       <<<<"t","h","u">>, 3>>,
       <<<<"f","r","i">>, 4>>,
       <<<<"s","a","t">>, 5>>,
       <<<<"s","u","n">>, 6>> >>

\* weekday_map: the characters yi er san si wu liu ri tian
weekday_map ==
    << <<"u4e00", 0>>,
       <<"u4e8c", 1>>,
       <<"u4e09", 2>>,
       <<"u56db", 3>>,
       <<"u4e94", 4>>,
       <<"u516d", 5>>,
       <<"u65e5", 6>>,
       <<"u5929", 6>> >>

\* the words of the date cues: jin tian, ming tian, hou tian, ben zhou, xia zhou and the English ones
DateWords ==
    [ jin_tian |-> <<"u4eca","u5929">>,
      ming_tian |-> <<"u660e","u5929">>,
      hou_tian |-> <<"u540e","u5929">>,
      ben_zhou |-> <<"u672c","u5468">>,
      xia_zhou |-> <<"u4e0b","u5468">>,
      today |-> <<"t","o","d","a","y">>,
      tomorrow |-> <<"t","o","m","o","r","r","o","w">>,
      day_after_tomorrow |->
          <<"d","a","y"," ","a","f","t","e","r"," ","t","o","m","o","r","r","o","w">>,
      next |-> <<"n","e","x","t">> ]

IsWeekdayChar(c) == \E i \in 1..Len(weekday_map) : weekday_map[i][1] = c

\* weekday_map.get(c)
WeekdayOfChar(c) == weekday_map[CHOOSE i \in 1..Len(weekday_map) : weekday_map[i][1] = c][2]

\* (benzhou|xiazhou)[weekday character] matches at i
WeekAt(s, i) ==
    /\ StartsAt(s, i, DateWords.ben_zhou) \/ StartsAt(s, i, DateWords.xia_zhou)
    /\ i + 2 <= Len(s) /\ IsWeekdayChar(s[i + 2])

\* seeded fault: a delta of 0 is kept, the day is today
NextNamedDayKeepsZero(text_lower, current_weekday) ==
    LET found == {n \in 1..Len(weekday_map_en) : Contains(text_lower, weekday_map_en[n][1])}
    IN  IF found = {} THEN None
        ELSE [k |-> "days",
              n |-> (weekday_map_en[Leftmost(found)][2] - current_weekday + 7) % 7]

\* the for loop over weekday_map_en of the "next" branch: the days to add for
\* the first name found in the text, or None
NextNamedDay(text_lower, current_weekday) ==
    LET found == {n \in 1..Len(weekday_map_en) : Contains(text_lower, weekday_map_en[n][1])}
    IN  IF found = {} THEN None
        ELSE LET day_num == weekday_map_en[Leftmost(found)][2]
                 delta == (day_num - current_weekday + 7) % 7
             IN  [k |-> "days", n |-> IF delta = 0 THEN 7 ELSE delta]

\* the if/elif chain that runs when the for loop found no name
NextFallbackDay(text_lower, current_weekday) ==
    LET has(n) == Contains(text_lower, weekday_map_en[n][1])
        hits == {d \in 1..7 : has(d) \/ has(d + 7)}
    IN  IF hits = {} THEN None
        ELSE [k |-> "days", n |-> 6 + Leftmost(hits) - current_weekday]

\* base of _parse_relative_date: None, or the days it adds to now
\* seeded fault: a ben zhou weekday that is past is not moved to next week
RelativeDaysThisWeekUnwrapped(text, current_weekday) ==
    LET text_lower == lower(text)
    IN  IF Contains(text, DateWords.jin_tian) \/ Contains(text_lower, DateWords.today)
        THEN [k |-> "days", n |-> 0]
        ELSE IF Contains(text, DateWords.ming_tian) \/ Contains(text_lower, DateWords.tomorrow)
        THEN [k |-> "days", n |-> 1]
        ELSE IF Contains(text, DateWords.hou_tian) \/ Contains(text_lower, DateWords.day_after_tomorrow)
        THEN [k |-> "days", n |-> 2]
        ELSE IF Contains(text_lower, DateWords.next)
        THEN LET named == NextNamedDay(text_lower, current_weekday)
             IN  IF named # None THEN named
                 ELSE NextFallbackDay(text_lower, current_weekday)
        ELSE LET starts == {i \in 1..Len(text) : WeekAt(text, i)}
             IN  IF starts = {} THEN None
                 ELSE LET i == Leftmost(starts)
                          target_weekday == WeekdayOfChar(text[i + 2])
                          delta == target_weekday - current_weekday
                      IN  IF StartsAt(text, i, DateWords.ben_zhou)
                          THEN [k |-> "days", n |-> delta]
                          ELSE [k |-> "days", n |-> delta + 7]

RelativeDays(text, current_weekday) ==
    LET text_lower == lower(text)
    IN  IF Contains(text, DateWords.jin_tian) \/ Contains(text_lower, DateWords.today)
        THEN [k |-> "days", n |-> 0]
        ELSE IF Contains(text, DateWords.ming_tian) \/ Contains(text_lower, DateWords.tomorrow)
        THEN [k |-> "days", n |-> 1]
        ELSE IF Contains(text, DateWords.hou_tian) \/ Contains(text_lower, DateWords.day_after_tomorrow)
        THEN [k |-> "days", n |-> 2]
        ELSE IF Contains(text_lower, DateWords.next)
        THEN LET named == NextNamedDay(text_lower, current_weekday)
             IN  IF named # None THEN named
                 ELSE NextFallbackDay(text_lower, current_weekday)
        ELSE LET starts == {i \in 1..Len(text) : WeekAt(text, i)}
             IN  IF starts = {} THEN None
                 ELSE LET i == Leftmost(starts)
                          target_weekday == WeekdayOfChar(text[i + 2])
                          delta == target_weekday - current_weekday
                      IN  IF StartsAt(text, i, DateWords.ben_zhou)
                          THEN [k |-> "days", n |-> IF delta < 0 THEN delta + 7 ELSE delta]
                          ELSE [k |-> "days", n |-> delta + 7]

\* the statements of _parse_relative_date after base is set: Returns(None),
\* Returns(a datetime), or Raises("ValueError")
relative_date_of(nw, base, time_hint) ==
    IF base = None THEN Returns(None)
    ELSE IF time_hint # None
    THEN Replace(PlusDays(nw, base.n), time_hint.items[1], time_hint.items[2])
    ELSE Replace(PlusDays(nw, base.n), 23, 59)

_parse_relative_date(text, nw) ==
    relative_date_of(nw, RelativeDays(text, nw.weekday), _parse_time_hint(text))

\* datetime.isoformat(): date, "T", HH:MM:SS, and the microseconds when not 0
isoformat(dt) ==
    [k |-> "iso", day |-> dt.day, hour |-> dt.hour, minute |-> dt.minute,
     second |-> dt.second,
     fraction |-> IF dt.microsecond = 0 THEN <<>> ELSE <<dt.microsecond>>]

-----------------------------------------------------------------------------
(* Title cleanup: an operator named cleanup_... is re.sub(pattern, '', s,   *)
(* flags=re.IGNORECASE) for one of cleanup_patterns; its end(i) is the     *)
(* position after the match of the pattern that starts at position i of s, *)
(* or 0 when the pattern does not match there.  Alternatives are tried in  *)
(* the order written.                                                      *)

\* the characters of the texts that \w does not match; letters, digits, "_"
\* and ideographs are word characters
NonWordChars ==
    { " ", "\t", "\n", "\r", "!", "#", "$", "%", "&", "'", "(", ")", "*", "+",
      ",", "-", ".", "/", ":", ";", "<", "=", ">", "?", "@", "[", "]", "^",
      "{", "|", "}", "~", "uff0c", "u3002", "uff01", "uff1a", "uff1f", "u3001" }

IsWordChar(c) == c \notin NonWordChars

\* \b at the position before s[i]
WordBoundary(s, i) ==
    (i - 1 >= 1 /\ i - 1 <= Len(s) /\ IsWordChar(s[i - 1]))
        # (i >= 1 /\ i <= Len(s) /\ IsWordChar(s[i]))

\* the literal lit (in lower case) matches at position i, ignoring case
LitAt(s, i, lit) ==
    i >= 1 /\ i + Len(lit) - 1 <= Len(s)
        /\ \A j \in 1..Len(lit) : LowerChar(s[i + j - 1]) = lit[j]

\* the position after the first of the alternatives that match at i, their
\* indexes being matching, or 0
FirstEnd(i, alts, matching) ==
    IF matching = {} THEN 0 ELSE i + Len(alts[Leftmost(matching)])

\* (alts[1]|alts[2]|...) at position i, followed by \b when bounded: the
\* position after the first alternative that matches, or 0
AltEnd(s, i, alts, bounded) ==
    FirstEnd(i, alts, {n \in 1..Len(alts) :
                          LitAt(s, i, alts[n])
                              /\ (bounded => WordBoundary(s, i + Len(alts[n])))})

\* re.sub(pattern, '', s, flags=re.IGNORECASE), ends[i] being the position
\* after the match of the pattern that starts at i, or 0: the matches are
\* taken left to right, not overlapping
Erase(s, ends) ==
    LET rest[i \in 1..(Len(s) + 1)] ==
            IF i > Len(s) THEN <<>>
            ELSE IF ends[i] > i THEN rest[ends[i]] ELSE <<s[i]>> \o rest[i + 1]
    IN  rest[1]

\* the alternatives of the cleanup patterns, in the order written
cleanup_words ==
    [ days |->
          << <<"u4eca","u5929">>,
             <<"u660e","u5929">>,
             <<"u540e","u5929">> >>,
      dates_english |->
          << <<"t","o","d","a","y">>,
             <<"t","o","m","o","r","r","o","w">>,
             <<"d","a","y"," ","a","f","t","e","r"," ","t","o","m","o","r","r","o","w">>,
             <<"n","e","x","t"," ","m","o","n","d","a","y">>,
             <<"n","e","x","t"," ","t","u","e","s","d","a","y">>,
             <<"n","e","x","t"," ","w","e","d","n","e","s","d","a","y">>,
             <<"n","e","x","t"," ","t","h","u","r","s","d","a","y">>,
             <<"n","e","x","t"," ","f","r","i","d","a","y">>,
             <<"n","e","x","t"," ","s","a","t","u","r","d","a","y">>,
             <<"n","e","x","t"," ","s","u","n","d","a","y">>,
             <<"n","e","x","t"," ","w","e","e","k">> >>,
      periods |->
          << <<"u4e0a","u5348">>,
             <<"u4e0b","u5348">>,
             <<"u665a","u4e0a">> >>,
      meridiems |->
          << <<"a","m">>,
             <<"p","m">>,
             <<"a",".","m",".">>,
             <<"p",".","m",".">> >>,
      am_pm |->
          << <<"a","m">>,
             <<"p","m">> >>,
      priority |->
          << <<"u4f18","u5148","u7ea7","u9ad8">>,
             <<"u9ad8","u4f18","u5148","u7ea7">>,
             <<"u5f88","u91cd","u8981">>,
             <<"u7d27","u6025">>,
             <<"u5c3d","u5feb">>,
             <<"u4f18","u5148","u7ea7","u4f4e">>,
             <<"u4f4e","u4f18","u5148","u7ea7">>,
             <<"u4e0d","u6025">>,
             <<"u6709","u7a7a","u518d">> >>,
      priority_english |->
          << <<"u","r","g","e","n","t">>,
             <<"i","m","p","o","r","t","a","n","t">>,
             <<"c","r","i","t","i","c","a","l">>,
             <<"a","s","a","p">>,
             <<"h","i","g","h"," ","p","r","i","o","r","i","t","y">>,
             <<"l","o","w"," ","p","r","i","o","r","i","t","y">>,
             <<"p","r","i","o","r","i","t","y"," ","h","i","g","h">>,
             <<"p","r","i","o","r","i","t","y"," ","l","o","w">> >>,
      its |->
          << <<"i","t","'","s">>,
             <<"i","t","s">> >>,
      very |-> << <<"v","e","r","y">> >>,
      important_urgent |->
          << <<"i","m","p","o","r","t","a","n","t">>,
             <<"u","r","g","e","n","t">> >>,
      openers |->
          << <<"r","e","m","i","n","d"," ","m","e"," ","t","o">>,
             <<"r","e","m","e","m","b","e","r"," ","t","o">>,
             <<"d","o","n","'","t"," ","f","o","r","g","e","t"," ","t","o">>,
             <<"d","o","n","t"," ","f","o","r","g","e","t"," ","t","o">>,
             <<"m","a","k","e"," ","s","u","r","e"," ","t","o">> >>,
      prepositions |->
          << <<"t","o">>,
             <<"a","t">>,
             <<"i","n">>,
             <<"o","n">>,
             <<"f","o","r">>,
             <<"w","i","t","h">>,
             <<"b","y">> >>,
      prepositions_again |->
          << <<"a","t">>,
             <<"i","n">>,
             <<"o","n">>,
             <<"f","o","r">>,
             <<"w","i","t","h">>,
             <<"b","y">>,
             <<"t","o">> >>,
      determiners |->
          << <<"i","t","'","s">>,
             <<"i","t","s">>,
             <<"t","h","e">>,
             <<"a">>,
             <<"a","n">>,
             <<"t","h","i","s">>,
             <<"t","h","a","t">> >>,
      subjects |->
          << <<"i","t","'","s">>,
             <<"i","t","s">>,
             <<"t","h","a","t","'","s">>,
             <<"t","h","a","t","s">>,
             <<"t","h","i","s"," ","i","s">> >>,
      predicates |->
          << <<"i","m","p","o","r","t","a","n","t">>,
             <<"u","r","g","e","n","t">>,
             <<"c","r","i","t","i","c","a","l">> >> ]

\* jintian|mingtian|houtian|benzhou[1-6,ri,tian]|xiazhou[1-6,ri,tian]
cleanup_dates(s) ==
    Erase(s, [i \in 1..Len(s) |->
        LET e == AltEnd(s, i, cleanup_words.days, FALSE)
        IN  IF e > 0 THEN e
            ELSE IF (LitAt(s, i, DateWords.ben_zhou) \/ LitAt(s, i, DateWords.xia_zhou))
                        /\ i + 2 <= Len(s) /\ IsWeekdayChar(s[i + 2])
                 THEN i + 3 ELSE 0])

\* \b(today|tomorrow|day after tomorrow|next (monday|...|sunday|week))\b
cleanup_dates_english(s) ==
    Erase(s, [i \in 1..Len(s) |->
        IF WordBoundary(s, i) THEN AltEnd(s, i, cleanup_words.dates_english, TRUE) ELSE 0])

\* \s*\d{1,2}dian from position i
cleanup_hour_dian(s, i) ==
    LET j == SkipWs(s, i)
    IN  IF HourDianAt(s, j, 2) THEN j + 3
        ELSE IF HourDianAt(s, j, 1) THEN j + 2 ELSE 0

\* (shangwu|xiawu|wanshang)?\s*\d{1,2}dian
cleanup_time_dian(s) ==
    Erase(s, [i \in 1..Len(s) |->
        LET p == AltEnd(s, i, cleanup_words.periods, FALSE)
            e == IF p > 0 THEN cleanup_hour_dian(s, p) ELSE 0
        IN  IF e > 0 THEN e ELSE cleanup_hour_dian(s, i)])

\* \b\d{1,2}\s*(?:am|pm|a\.m\.|p\.m\.)\b
cleanup_time_meridiem(s) ==
    Erase(s, [i \in 1..Len(s) |->
        IF WordBoundary(s, i) /\ DigitsAt(s, i, 1)
        THEN LET d == IF DigitsAt(s, i, 2) THEN 2 ELSE 1
             IN  AltEnd(s, SkipWs(s, i + d), cleanup_words.meridiems, TRUE)
        ELSE 0])

\* \s*(?:am|pm)?\b from position d, which follows a digit: with all the
\* white space and the suffix, else with all the white space, else with none
cleanup_suffix(s, d) ==
    LET k == SkipWs(s, d)
        e == AltEnd(s, k, cleanup_words.am_pm, TRUE)
    IN  IF e > 0 THEN e
        ELSE IF k > d /\ WordBoundary(s, k) THEN k
        ELSE IF WordBoundary(s, d) THEN d ELSE 0

\* \b\d{1,2}:\d{2}\s*(?:am|pm)?\b
cleanup_time_clock(s) ==
    Erase(s, [i \in 1..Len(s) |->
        IF WordBoundary(s, i) /\ (ClockAt(s, i, 1) \/ ClockAt(s, i, 2))
        THEN cleanup_suffix(s, i + (IF ClockAt(s, i, 2) THEN 2 ELSE 1) + 3)
        ELSE 0])

\* \bat\s+\d{1,2}\s*(?:am|pm)?\b
cleanup_time_at(s) ==
    Erase(s, [i \in 1..Len(s) |->
        IF WordBoundary(s, i) /\ LitAt(s, i, <<"a","t">>)
        THEN LET j == SkipWs(s, i + 2)
             IN  IF j > i + 2 /\ DigitsAt(s, j, 1)
                 THEN cleanup_suffix(s, j + (IF DigitsAt(s, j, 2) THEN 2 ELSE 1))
                 ELSE 0
        ELSE 0])

cleanup_priority(s) ==
    Erase(s, [i \in 1..Len(s) |->
        AltEnd(s, i, cleanup_words.priority, FALSE)])

\* \b(urgent|important|critical|asap|high priority|low priority|priority (high|low))\b
cleanup_priority_english(s) ==
    Erase(s, [i \in 1..Len(s) |->
        IF WordBoundary(s, i) THEN AltEnd(s, i, cleanup_words.priority_english, TRUE) ELSE 0])

\* (alts)\s+ at position i, when it matches, else nothing: the position after
OptionalWord(s, i, alts) ==
    LET e == AltEnd(s, i, alts, FALSE)
    IN  IF e > 0 /\ SkipWs(s, e) > e THEN SkipWs(s, e) ELSE i

\* (first)\s+(second)\b at position i, after a \b
TwoWords(s, i, first, second) ==
    IF WordBoundary(s, i) /\ OptionalWord(s, i, first) > i
    THEN AltEnd(s, OptionalWord(s, i, first), second, TRUE)
    ELSE 0

\* \b(it\'?s\s+)?(very\s+)?(important|urgent)\b
cleanup_modifier(s) ==
    Erase(s, [i \in 1..Len(s) |->
        IF WordBoundary(s, i)
        THEN AltEnd(s, OptionalWord(s, OptionalWord(s, i, cleanup_words.its), cleanup_words.very),
                    cleanup_words.important_urgent, TRUE)
        ELSE 0])

\* \b(remind me to|remember to|don\'?t forget to|make sure to)\b
cleanup_opener(s) ==
    Erase(s, [i \in 1..Len(s) |->
        IF WordBoundary(s, i) THEN AltEnd(s, i, cleanup_words.openers, TRUE) ELSE 0])

\* \b(to|at|in|on|for|with|by)\s+(it\'?s|the|a|an|this|that)\b
cleanup_preposition(s) ==
    Erase(s, [i \in 1..Len(s) |->
        TwoWords(s, i, cleanup_words.prepositions, cleanup_words.determiners)])

\* \b(it\'?s|that\'?s|this is)\s+(important|urgent|critical)\b
cleanup_statement(s) ==
    Erase(s, [i \in 1..Len(s) |->
        TwoWords(s, i, cleanup_words.subjects, cleanup_words.predicates)])

\* the characters of the punctuation class
cleanup_punctuation_chars == {"uff0c", ",", "u3002", ".", "!", "uff01"}

cleanup_punctuation(s) ==
    Erase(s, [i \in 1..Len(s) |->
        IF s[i] \in cleanup_punctuation_chars THEN i + 1 ELSE 0])

\* re.sub(r'\s+', ' ', s)
collapse_whitespace(s) ==
    LET rest[i \in 1..(Len(s) + 1)] ==
            IF i > Len(s) THEN <<>>
            ELSE IF IsSpace(s[i]) THEN <<" ">> \o rest[SkipWs(s, i)]
            ELSE <<s[i]>> \o rest[i + 1]
    IN  rest[1]

\* the pattern of the second preposition pass, after the white space collapsed
cleanup_preposition_again(s) ==
    Erase(s, [i \in 1..Len(s) |->
        TwoWords(s, i, cleanup_words.prepositions_again, cleanup_words.determiners)])

\* seeded fault: the cleaned title is returned also when it is empty
title_or_nothing(title, text) == title

\* return title or text
title_or(title, text) == IF title # <<>> THEN title ELSE text

\* for pattern in cleanup_patterns: title = re.sub(pattern, '', title); then
\* the white space, the second preposition pass, strip(), and  title or text
_clean_title(text) ==
    title_or(strip(cleanup_preposition_again(collapse_whitespace(
                 cleanup_punctuation(cleanup_statement(cleanup_preposition(
                 cleanup_opener(cleanup_modifier(cleanup_priority_english(
                 cleanup_priority(cleanup_time_at(cleanup_time_clock(
                 cleanup_time_meridiem(cleanup_time_dian(cleanup_dates_english(
                 cleanup_dates(text)))))))))))))))),
             text)

-----------------------------------------------------------------------------
(* Tag inference                                                           *)

work_keywords ==
    << <<"u5de5","u4f5c">>,
       <<"u9879","u76ee">>,
       <<"u62a5","u544a">>,
       <<"u4f1a","u8bae">>,
       <<"u4efb","u52a1">>,
       <<"u9879","u76ee">>,
       <<"u4ee3","u7801">>,
       <<"u5ba1","u67e5">>,
       <<"u5f00","u53d1">>,
       <<"u8bbe","u8ba1">>,
       <<"w","o","r","k">>,
       <<"p","r","o","j","e","c","t">>,
       <<"r","e","p","o","r","t">>,
       <<"m","e","e","t","i","n","g">>,
       <<"t","a","s","k">>,
       <<"c","o","d","e">>,
       <<"r","e","v","i","e","w">>,
       <<"d","e","v","e","l","o","p">>,
       <<"d","e","v","e","l","o","p","m","e","n","t">>,
       <<"d","e","s","i","g","n">>,
       <<"i","m","p","l","e","m","e","n","t">>,
       <<"i","m","p","l","e","m","e","n","t","a","t","i","o","n">>,
       <<"b","u","g">>,
       <<"f","i","x">>,
       <<"f","e","a","t","u","r","e">>,
       <<"d","e","p","l","o","y">>,
       <<"d","e","p","l","o","y","m","e","n","t">>,
       <<"t","e","s","t">>,
       <<"t","e","s","t","i","n","g">>,
       <<"d","o","c","u","m","e","n","t">>,
       <<"d","o","c","u","m","e","n","t","a","t","i","o","n">>,
       <<"p","l","a","n">>,
       <<"p","l","a","n","n","i","n","g">>,
       <<"a","n","a","l","y","s","i","s">> >>

\* the keyword lists that refine a work tag, in the order tried
work_refinements ==
    [ meeting |->
          << <<"m","e","e","t","i","n","g">>,
             <<"u4f1a","u8bae">>,
             <<"c","o","n","f","e","r","e","n","c","e">>,
             <<"c","a","l","l">> >>,
      code |->
          << <<"c","o","d","e">>,
             <<"u4ee3","u7801">>,
             <<"p","r","o","g","r","a","m","m","i","n","g">>,
             <<"p","r","o","g","r","a","m">>,
             <<"c","o","d","i","n","g">> >>,
      review |->
          << <<"r","e","v","i","e","w">>,
             <<"u5ba1","u67e5">>,
             <<"c","h","e","c","k">>,
             <<"u68c0","u67e5">> >>,
      project |->
          << <<"p","r","o","j","e","c","t">>,
             <<"u9879","u76ee">> >>,
      report |->
          << <<"r","e","p","o","r","t">>,
             <<"u62a5","u544a">> >> ]

study_keywords ==
    << <<"u5b66","u4e60">>,
       <<"u8bfe","u7a0b">>,
       <<"u4f5c","u4e1a">>,
       <<"u8003","u8bd5">>,
       <<"u57f9","u8bad">>,
       <<"u6559","u7a0b">>,
       <<"l","e","a","r","n">>,
       <<"s","t","u","d","y">>,
       <<"c","o","u","r","s","e">>,
       <<"h","o","m","e","w","o","r","k">>,
       <<"e","x","a","m">>,
       <<"t","e","s","t">>,
       <<"t","r","a","i","n","i","n","g">>,
       <<"t","u","t","o","r","i","a","l">> >>

shopping_keywords ==
    << <<"u8d2d","u7269">>,
       <<"u4e70">>,
       <<"u8d85","u5e02">>,
       <<"u5546","u5e97">>,
       <<"u91c7","u8d2d">>,
       <<"s","h","o","p","p","i","n","g">>,
       <<"b","u","y">>,
       <<"p","u","r","c","h","a","s","e">>,
       <<"s","h","o","p">>,
       <<"g","r","o","c","e","r","y">>,
       <<"s","t","o","r","e">> >>

\* seeded fault: bao gao (report) counted as a health word
health_keywords_with_report ==
    << <<"u62a5","u544a">>,
       <<"u5065","u5eb7">>,
       <<"h","e","a","l","t","h">>,
       <<"g","y","m">> >>

health_keywords ==
    << <<"u5065","u5eb7">>,
       <<"u8fd0","u52a8">>,
       <<"u953b","u70bc">>,
       <<"u533b","u9662">>,
       <<"u533b","u751f">>,
       <<"u5065","u8eab">>,
       <<"h","e","a","l","t","h">>,
       <<"e","x","e","r","c","i","s","e">>,
       <<"w","o","r","k","o","u","t">>,
       <<"h","o","s","p","i","t","a","l">>,
       <<"d","o","c","t","o","r">>,
       <<"f","i","t","n","e","s","s">>,
       <<"g","y","m">> >>

personal_keywords ==
    << <<"u4e2a","u4eba">>,
       <<"u751f","u6d3b">>,
       <<"u5bb6","u5ead">>,
       <<"u670b","u53cb">>,
       <<"u793e","u4ea4">>,
       <<"p","e","r","s","o","n","a","l">>,
       <<"l","i","f","e">>,
       <<"f","a","m","i","l","y">>,
       <<"f","r","i","e","n","d">>,
       <<"s","o","c","i","a","l">>,
       <<"h","o","m","e">> >>

finance_keywords ==
    << <<"u8d22","u52a1">>,
       <<"u8d26","u5355">>,
       <<"u652f","u4ed8">>,
       <<"u94f6","u884c">>,
       <<"u6295","u8d44">>,
       <<"f","i","n","a","n","c","e">>,
       <<"b","i","l","l">>,
       <<"p","a","y","m","e","n","t">>,
       <<"b","a","n","k">>,
       <<"i","n","v","e","s","t","m","e","n","t">>,
       <<"m","o","n","e","y">> >>

travel_keywords ==
    << <<"u65c5","u884c">>,
       <<"u65c5","u6e38">>,
       <<"u51fa","u5dee">>,
       <<"u822a","u73ed">>,
       <<"u9152","u5e97">>,
       <<"t","r","a","v","e","l">>,
       <<"t","r","i","p">>,
       <<"f","l","i","g","h","t">>,
       <<"h","o","t","e","l">>,
       <<"v","a","c","a","t","i","o","n">>,
       <<"j","o","u","r","n","e","y">> >>

\* the tag labels
Tag ==
    [ Meeting |-> <<"M","e","e","t","i","n","g">>,
      Code |-> <<"C","o","d","e">>,
      Review |-> <<"R","e","v","i","e","w">>,
      Project |-> <<"P","r","o","j","e","c","t">>,
      Report |-> <<"R","e","p","o","r","t">>,
      Work |-> <<"W","o","r","k">>,
      Study |-> <<"S","t","u","d","y">>,
      Shopping |-> <<"S","h","o","p","p","i","n","g">>,
      Health |-> <<"H","e","a","l","t","h">>,
      Personal |-> <<"P","e","r","s","o","n","a","l">>,
      Finance |-> <<"F","i","n","a","n","c","e">>,
      Travel |-> <<"T","r","a","v","e","l">>,
      Other |-> <<"O","t","h","e","r">> ]

\* simple_tags[:n]
Take(seq, n) == SubSeq(seq, 1, IF Len(seq) < n THEN Len(seq) ELSE n)

\* _get_fallback_tags with the code refinement tried before the meeting one
get_fallback_tags_code_first(title, description) ==
    LET content == lower(TitleAndDescription(title, description))
        work == IF ~AnyIn(content, work_keywords) THEN <<>>
                ELSE IF AnyIn(content, work_refinements.code) THEN <<Tag.Code>>
                ELSE IF AnyIn(content, work_refinements.meeting) THEN <<Tag.Meeting>>
                ELSE IF AnyIn(content, work_refinements.review) THEN <<Tag.Review>>
                ELSE IF AnyIn(content, work_refinements.project) THEN <<Tag.Project>>
                ELSE IF AnyIn(content, work_refinements.report) THEN <<Tag.Report>>
                ELSE <<Tag.Work>>
        category(keywords, tag) == IF AnyIn(content, keywords) THEN <<tag>> ELSE <<>>
        matched == work \o category(study_keywords, Tag.Study)
                        \o category(shopping_keywords, Tag.Shopping)
                        \o category(health_keywords, Tag.Health)
                        \o category(personal_keywords, Tag.Personal)
                        \o category(finance_keywords, Tag.Finance)
                        \o category(travel_keywords, Tag.Travel)
        simple_tags ==
            IF matched # <<>> THEN matched
            ELSE IF Contains(content, work_refinements.meeting[1]) \/ Contains(content, work_refinements.meeting[2])
            THEN <<Tag.Meeting>>
            ELSE IF Contains(content, work_refinements.code[1]) \/ Contains(content, work_refinements.code[2])
            THEN <<Tag.Code>>
            ELSE IF Contains(content, work_refinements.review[1]) \/ Contains(content, work_refinements.review[2])
            THEN <<Tag.Review>>
            ELSE <<Tag.Work>>
    IN  IF simple_tags # <<>> THEN Take(simple_tags, 3) ELSE <<Tag.Other>>

_get_fallback_tags(title, description) ==
    LET content == lower(TitleAndDescription(title, description))
        work == IF ~AnyIn(content, work_keywords) THEN <<>>
                ELSE IF AnyIn(content, work_refinements.meeting) THEN <<Tag.Meeting>>
                ELSE IF AnyIn(content, work_refinements.code) THEN <<Tag.Code>>
                ELSE IF AnyIn(content, work_refinements.review) THEN <<Tag.Review>>
                ELSE IF AnyIn(content, work_refinements.project) THEN <<Tag.Project>>
                ELSE IF AnyIn(content, work_refinements.report) THEN <<Tag.Report>>
                ELSE <<Tag.Work>>
        category(keywords, tag) == IF AnyIn(content, keywords) THEN <<tag>> ELSE <<>>
        matched == work \o category(study_keywords, Tag.Study)
                        \o category(shopping_keywords, Tag.Shopping)
                        \o category(health_keywords, Tag.Health)
                        \o category(personal_keywords, Tag.Personal)
                        \o category(finance_keywords, Tag.Finance)
                        \o category(travel_keywords, Tag.Travel)
        simple_tags ==
            IF matched # <<>> THEN matched
            ELSE IF Contains(content, work_refinements.meeting[1]) \/ Contains(content, work_refinements.meeting[2])
            THEN <<Tag.Meeting>>
            ELSE IF Contains(content, work_refinements.code[1]) \/ Contains(content, work_refinements.code[2])
            THEN <<Tag.Code>>
            ELSE IF Contains(content, work_refinements.review[1]) \/ Contains(content, work_refinements.review[2])
            THEN <<Tag.Review>>
            ELSE <<Tag.Work>>
    IN  IF simple_tags # <<>> THEN Take(simple_tags, 3) ELSE <<Tag.Other>>

-----------------------------------------------------------------------------
(* Providers: what each operation makes of the remote response.            *)
(* A response is the failure of the remote call, a reply without tool      *)
(* calls (OpenAI function calling), a reply that json.loads accepts (with  *)
(* the value it loads to), or a reply that is no JSON (with the quoted     *)
(* substrings and the lines the regular expressions find in it).           *)

ResponseError == [t |-> "error"]

ResponseNoToolCalls == [t |-> "no_tool_calls"]

ResponseJson(v) == [t |-> "json", v |-> v]

ResponseText(quoted, lines) == [t |-> "text", quoted |-> quoted, lines |-> lines]

\* dict.get(key, default)
DictGet(d, key, default) == IF key \in DOMAIN d THEN d[key] ELSE default

\* d[key] = value
DictSet(d, key, value) ==
    [x \in DOMAIN d \cup {key} |-> IF x = key THEN value ELSE d[x]]

OpenAIProvider_parse_natural_language(text, r) ==
    CASE r.t = "error" -> Raises("APIError")
      [] r.t = "no_tool_calls" ->
            Returns(Dict([title |-> Str(text), description |-> None,
                          priority |-> Str(MEDIUM), tags |-> List(<<>>)]))
      [] r.t = "json" -> Returns(r.v)
      [] OTHER -> Raises("JSONDecodeError")

GoogleAIProvider_parse_natural_language(text, r) ==
    CASE r.t = "error" -> Raises("APIError")
      [] r.t = "json" -> Returns(r.v)
      [] OTHER -> Raises("JSONDecodeError")

OpenAIProvider_suggest_tags(r) ==
    CASE r.t = "error" -> Raises("APIError")
      [] r.t = "json" -> Returns(IF r.v.k = "list" THEN r.v ELSE List(<<>>))
      [] OTHER -> Returns(List(Take(r.quoted, 4)))

GoogleAIProvider_suggest_tags(r) ==
    CASE r.t = "error" -> Raises("APIError")
      [] r.t = "json" -> Returns(IF r.v.k = "list" THEN r.v ELSE List(<<>>))
      [] OTHER -> Returns(List(Take(r.quoted, 4)))

\* str.lstrip('0123456789.-) ')
RECURSIVE lstrip_numbering(_)
lstrip_numbering(s) ==
    IF s # <<>> /\ (IsDigit(Head(s)) \/ Head(s) \in {".", "-", ")", " "})
    THEN lstrip_numbering(Tail(s))
    ELSE s

\* [line.strip().lstrip('0123456789.-) ') for line in lines if line.strip()]
RECURSIVE SubtaskLines(_)
SubtaskLines(lines) ==
    IF lines = <<>> THEN <<>>
    ELSE IF strip(Head(lines)) = <<>> THEN SubtaskLines(Tail(lines))
    ELSE <<lstrip_numbering(strip(Head(lines)))>> \o SubtaskLines(Tail(lines))

OpenAIProvider_breakdown_task(r) ==
    CASE r.t = "error" -> Raises("APIError")
      [] r.t = "json" -> Returns(IF r.v.k = "list" THEN r.v ELSE List(<<>>))
      [] OTHER -> Returns(List(Take(SubtaskLines(r.lines), 7)))

GoogleAIProvider_breakdown_task(r) ==
    CASE r.t = "error" -> Raises("APIError")
      [] r.t = "json" -> Returns(IF r.v.k = "list" THEN r.v ELSE List(<<>>))
      [] OTHER -> Returns(List(Take(SubtaskLines(r.lines), 7)))

ReasonDefault ==
    <<"u65e0","u6cd5","u786e","u5b9a","uff0c","u9ed8","u8ba4","u4e3a","u4e2d","u4f18","u5148","u7ea7">>

\* the try block around json.loads and TaskPriority(priority): any exception
\* in it (no JSON, no dict, no TaskPriority value) gives the medium default
ProviderPriorityOf(r) ==
    IF r.t = "json" /\ r.v.k = "dict"
    THEN LET priority == DictGet(r.v.d, "priority", Str(MEDIUM))
             reasoning == DictGet(r.v.d, "reasoning", Str(<<>>))
         IN  IF priority.k = "str" /\ priority.s \in TaskPriorityValues
             THEN Tuple(<<priority.s, reasoning.s>>)
             ELSE Tuple(<<MEDIUM, ReasonDefault>>)
    ELSE Tuple(<<MEDIUM, ReasonDefault>>)

OpenAIProvider_recommend_priority(r) ==
    IF r.t = "error" THEN Raises("APIError") ELSE Returns(ProviderPriorityOf(r))

GoogleAIProvider_recommend_priority(r) ==
    IF r.t = "error" THEN Raises("APIError") ELSE Returns(ProviderPriorityOf(r))

OpenAI == "OpenAIProvider"

Google == "GoogleAIProvider"

\* getattr(provider, func_name)(*args)
ProviderCall(provider, f, a, r) ==
    CASE f = "parse_natural_language" ->
            (IF provider = OpenAI THEN OpenAIProvider_parse_natural_language(a.text, r)
             ELSE GoogleAIProvider_parse_natural_language(a.text, r))
      [] f = "suggest_tags" ->
            (IF provider = OpenAI THEN OpenAIProvider_suggest_tags(r)
             ELSE GoogleAIProvider_suggest_tags(r))
      [] f = "breakdown_task" ->
            (IF provider = OpenAI THEN OpenAIProvider_breakdown_task(r)
             ELSE GoogleAIProvider_breakdown_task(r))
      [] OTHER ->
            (IF provider = OpenAI THEN OpenAIProvider_recommend_priority(r)
             ELSE GoogleAIProvider_recommend_priority(r))

-----------------------------------------------------------------------------
(* The orchestrator                                                        *)

\* the values of settings.ai_provider that AIService.__init__ knows
Mode ==
    [ openai |-> <<"o","p","e","n","a","i">>,
      google |-> <<"g","o","o","g","l","e">>,
      auto |-> <<"a","u","t","o">> ]

\* seeded fault: AIService.__init__ appends a provider without reading
\* provider.available
AIService__init__available_unread(cfg, imp) ==
    LET provider_mode == lower(cfg.ai_provider)
        openai == IF /\ provider_mode \in {Mode.openai, Mode.auto}
                     /\ cfg.openai_api_key
                  THEN <<OpenAI>> ELSE <<>>
        google == IF /\ provider_mode \in {Mode.google, Mode.auto}
                     /\ cfg.google_ai_api_key
                  THEN <<Google>> ELSE <<>>
    IN  openai \o google

\* seeded fault: AIService.__init__ builds the Google provider first
AIService__init__google_first(cfg, imp) ==
    LET provider_mode == lower(cfg.ai_provider)
        openai == IF /\ provider_mode \in {Mode.openai, Mode.auto}
                     /\ cfg.openai_api_key
                     /\ imp.openai
                  THEN <<OpenAI>> ELSE <<>>
        google == IF /\ provider_mode \in {Mode.google, Mode.auto}
                     /\ cfg.google_ai_api_key
                     /\ imp.google
                  THEN <<Google>> ELSE <<>>
    IN  google \o openai

\* AIService.__init__: the provider list for a configuration
AIService__init__(cfg, imp) ==
    LET provider_mode == lower(cfg.ai_provider)
        openai == IF /\ provider_mode \in {Mode.openai, Mode.auto}
                     /\ cfg.openai_api_key
                     /\ imp.openai
                  THEN <<OpenAI>> ELSE <<>>
        google == IF /\ provider_mode \in {Mode.google, Mode.auto}
                     /\ cfg.google_ai_api_key
                     /\ imp.google
                  THEN <<Google>> ELSE <<>>
    IN  openai \o google

\* seeded fault: the loop does not stop at the first provider that returns
LoopStepKeepsGoing(outcome, idx) ==
    [pc |-> "trying", index |-> idx + 1,
     result |-> IF outcome.k = "raise" THEN None ELSE outcome.v]

\* one pass of the for loop of _try_providers, after the provider at idx gave
\* outcome: return its result, or continue with the next provider
LoopStep(outcome, idx) ==
    IF outcome.k = "raise"
    THEN [pc |-> "trying", index |-> idx + 1, result |-> None]
    ELSE [pc |-> "post", index |-> idx, result |-> outcome.v]

\* the dict parse_natural_language returns without a provider result, or
\* the exception of _parse_relative_date
fallback_task(title, priority, due_date) ==
    IF due_date.k = "raise" THEN due_date
    ELSE Returns(Dict([title |-> Str(title),
                       description |-> None,
                       priority |-> Str(priority),
                       due_date |-> IF due_date.v # None
                                    THEN isoformat(due_date.v) ELSE None,
                       tags |-> List(<<>>)]))

\* seeded fault: the keyword scan of the text does not override the provider
parse_natural_language_no_override(res, text, nw) ==
    IF Truthy(res) /\ res.k = "dict"
    THEN LET normalized == _normalize_priority(DictGet(res.d, "priority", None))
         IN  Returns(Dict(DictSet(res.d, "priority",
                                  IF Truthy(normalized) THEN normalized
                                  ELSE Str(MEDIUM))))
    ELSE IF Truthy(res) THEN Raises("AttributeError")
    ELSE fallback_task(_clean_title(text), _get_fallback_priority(text, None)[1],
                       _parse_relative_date(text, nw))

\* seeded fault: only a high keyword scan overrides the provider
parse_natural_language_high_only(res, text, nw) ==
    IF Truthy(res) /\ res.k = "dict"
    THEN LET forced == IF _get_fallback_priority(text, None)[1] = HIGH
                       THEN DictSet(res.d, "priority", Str(HIGH))
                       ELSE res.d
             normalized == _normalize_priority(DictGet(forced, "priority", None))
         IN  Returns(Dict(DictSet(forced, "priority",
                                  IF Truthy(normalized) THEN normalized
                                  ELSE Str(MEDIUM))))
    ELSE IF Truthy(res) THEN Raises("AttributeError")
    ELSE fallback_task(_clean_title(text), _get_fallback_priority(text, None)[1],
                       _parse_relative_date(text, nw))

\* parse_natural_language, given what _try_providers returned
AIService_parse_natural_language(res, text, nw) ==
    IF Truthy(res)
    THEN LET forced_priority == _get_fallback_priority(text, None)[1]
         IN  IF res.k # "dict"
             THEN \* result["priority"] = ... and result.get(...) of a non-dict
                  Raises(IF forced_priority # MEDIUM THEN "TypeError" ELSE "AttributeError")
             ELSE LET forced == IF forced_priority # MEDIUM
                                THEN DictSet(res.d, "priority", Str(forced_priority))
                                ELSE res.d
                      normalized == _normalize_priority(DictGet(forced, "priority", None))
                  IN  Returns(Dict(DictSet(forced, "priority",
                                           IF Truthy(normalized) THEN normalized
                                           ELSE Str(MEDIUM))))
    ELSE fallback_task(_clean_title(text), _get_fallback_priority(text, None)[1],
                       _parse_relative_date(text, nw))

\* seeded fault: the provider's result is tested with "is not None"
suggest_tags_is_not_none(res, title, description) ==
    IF res # None THEN Returns(res)
    ELSE Returns(List(_get_fallback_tags(title, description)))

AIService_suggest_tags(res, title, description) ==
    IF Truthy(res) THEN Returns(res)
    ELSE Returns(List(_get_fallback_tags(title, description)))

\* parse_and_create_task: the tags of the task it creates, given the dict
\* parse_natural_language returned and the outcome of
\* suggest_tags(parsed.get("title"), parsed.get("description"))
parse_and_create_task_tags(parsed, suggested) ==
    LET tags == DictGet(parsed, "tags", List(<<>>))
    IN  IF ~Truthy(tags)
        THEN (IF suggested.k = "return" THEN suggested.v ELSE List(<<>>))
        ELSE tags

\* the prefixes of the three fallback subtasks: zhun bei, zhi xing, wan cheng
Step ==
    [ prepare |-> <<"u51c6","u5907"," ">>,
      execute |-> <<"u6267","u884c"," ">>,
      finish |-> <<"u5b8c","u6210"," ">> ]

AIService_breakdown_task(res, task_description) ==
    IF Truthy(res) THEN Returns(res)
    ELSE Returns(List(<< Step.prepare \o task_description,
                         Step.execute \o task_description,
                         Step.finish \o task_description >>))

AIService_recommend_priority(res, title, description) ==
    IF Truthy(res) THEN Returns(res)
    ELSE Returns(Tuple(_get_fallback_priority(title, description)))

\* the public operation f on what _try_providers returned
Operation(f, res, a, nw) ==
    CASE f = "parse_natural_language" -> AIService_parse_natural_language(res, a.text, nw)
      [] f = "suggest_tags" -> AIService_suggest_tags(res, a.text, a.description)
      [] f = "breakdown_task" -> AIService_breakdown_task(res, a.text)
      [] OTHER -> AIService_recommend_priority(res, a.text, a.description)

-----------------------------------------------------------------------------
(* Inputs                                                                  *)

\* longest text of the extractor runs, in fragments
MaxFragments == 2

FuncNames == {"parse_natural_language", "suggest_tags", "breakdown_task",
              "recommend_priority"}

\* do the arguments of f include a description
TakesDescription(f) == f \in {"suggest_tags", "recommend_priority"}

\* settings.ai_provider as configured: the three modes, one in capitals, one unknown
Modes ==
    { <<"a","u","t","o">>,
      <<"O","p","e","n","A","I">>,
      <<"g","o","o","g","l","e">>,
      <<"n","o","n","e">> }

Configurations ==
    [ai_provider : Modes, openai_api_key : BOOLEAN, google_ai_api_key : BOOLEAN]

Importables == [openai : BOOLEAN, google : BOOLEAN]

\* datetime.now() on weekday w (0 is Monday), at 10:15:37.5
NowOn(w) == Datetime(0, w, 10, 15, 37, 500000)

Nows == {NowOn(w) : w \in 0..6}

\* the pieces the extractor's input texts are built from

Fragments ==
    { <<"u4eca","u5929">>,
      <<"u660e","u5929">>,
      <<"u540e","u5929">>,
      <<"t","o","d","a","y">>,
      <<"T","o","m","o","r","r","o","w">>,
      <<"d","a","y"," ","a","f","t","e","r"," ","t","o","m","o","r","r","o","w">>,
      <<"3","u70b9">>,
      <<"u4e0b","u5348">>,
      <<"u4e0a","u5348">>,
      <<"2","5","u70b9">>,
      <<"3","p","m">>,
      <<"1","2"," ","a","m">>,
      <<"9",":","3","0">>,
      <<"1","2",":","7","5">>,
      <<"3",":","3","0","p","m">>,
      <<"u7d27","u6025">>,
      <<"u4e0d","u6025">>,
      <<"u","r","g","e","n","t">>,
      <<"O","p","t","i","o","n","a","l">>,
      <<" ">>,
      <<"x">> }

RECURSIVE TextsUpTo(_)
TextsUpTo(n) ==
    IF n = 0 THEN {<<>>}
    ELSE LET shorter == TextsUpTo(n - 1)
         IN  shorter \cup {t \o f : t \in shorter, f \in Fragments}

\* the texts that name a day of the week: "next <day>", "next week",
\* ben zhou <day> and xia zhou <day>
WeekdayTexts ==
    {DateWords.next \o <<" ">> \o weekday_map_en[i][1] : i \in 1..Len(weekday_map_en)}
        \cup {DateWords.next \o <<" ","w","e","e","k">>}
        \cup {p \o <<weekday_map[i][1]>> : p \in {DateWords.ben_zhou, DateWords.xia_zhou}, i \in 1..Len(weekday_map)}

\* whole sentences: "next to Simon", "today 3:00 PM"
\* ming tian xia wu 3 dian ti xing wo kai hui, hen zhong yao: the text of the
\* example of the parse endpoint
MeetingExample ==
    <<"u660e","u5929","u4e0b","u5348","3","u70b9","u63d0","u9192","u6211","u5f00","u4f1a","uff0c","u5f88","u91cd","u8981">>

\* ti xing wo kai hui: a title parse-and-create passes on to suggest_tags
MeetingTitle == <<"u63d0","u9192","u6211","u5f00","u4f1a">>

\* wan cheng xiang mu bao gao: the title of the tag suggestion example
ReportTitle == <<"u5b8c","u6210","u9879","u76ee","u62a5","u544a">>

\* xu yao zai xia zhou zhi qian wan cheng xiang mu jin du bao gao: its description
ReportDescription ==
    <<"u9700","u8981","u5728","u4e0b","u5468","u4e4b","u524d","u5b8c","u6210",
      "u9879","u76ee","u8fdb","u5ea6","u62a5","u544a">>

ExampleTexts ==
    { <<"n","e","x","t"," ","t","o"," ","S","i","m","o","n">>,
      <<"t","o","d","a","y"," ","3",":","0","0"," ","P","M">>,
      MeetingExample, MeetingTitle, ReportTitle }

\* titles with the trigger words of the tag categories; the last two are
\* hui yi and dai ma shen cha
TagTexts ==
    { <<"w","o","r","k">>,
      <<"m","e","e","t","i","n","g"," ","c","o","d","e">>,
      <<"c","o","d","e"," ","r","e","v","i","e","w">>,
      <<"r","e","v","i","e","w"," ","p","r","o","j","e","c","t">>,
      <<"p","r","o","j","e","c","t"," ","r","e","p","o","r","t">>,
      <<"r","e","p","o","r","t">>,
      <<"t","e","s","t">>,
      <<"b","u","y"," ","g","y","m"," ","h","o","m","e"," ","b","i","l","l"," ","t","r","i","p">>,
      <<"e","x","a","m">>,
      <<"p","r","o","g","r","a","m">>,
      <<"h","o","m","e","w","o","r","k">>,
      <<"c","h","e","c","k"," ","t","h","e"," ","p","l","a","n">>,
      <<"u4f1a","u8bae">>,
      <<"u4ee3","u7801","u5ba1","u67e5">> }

\* the extractor's input texts: the endpoints refuse an empty text
ExtractorTexts ==
    (TextsUpTo(MaxFragments) \ {<<>>}) \cup WeekdayTexts \cup ExampleTexts \cup TagTexts

ExtractorDescriptions ==
    { None,
      Str(<<"u91cd","u8981">>),
      Str(<<"u6709","u7a7a">>),
      Str(<<"p","r","i","o","r","i","t","y">>),
      Str(ReportDescription) }

\* the texts of the orchestrator runs
Texts ==
    { <<"x">>,
      <<"u7d27","u6025">>,
      <<"u4e0d","u6025">>,
      <<"U","R","G","E","N","T">>,
      <<"o","p","t","i","o","n","a","l">>,
      <<"u4e0d","u6025"," ","u","r","g","e","n","t">>,
      <<"u4eca","u5929">>,
      <<"u660e","u5929","2","5","u70b9">>,
      <<"u540e","u5929","3","p","m">> }

Descriptions ==
    { None,
      Str(<<"u91cd","u8981">>) }

\* a title a provider extracts
ProviderTitle == <<"T">>

\* priorities a provider writes into its answer
ProviderPriorities ==
    { <<"l","o","w">>,
      <<"m","e","d","i","u","m">>,
      <<"h","i","g","h">>,
      <<"H","I","G","H">>,
      <<"u9ad8">>,
      <<"h">>,
      <<"u","r","g","e","n","t">> }

ParseAnswers ==
    {Dict([title |-> Str(ProviderTitle), priority |-> Str(p)]) : p \in ProviderPriorities}
    \cup {Dict([title |-> Str(ProviderTitle)]),
          Dict([title |-> Str(ProviderTitle), priority |-> None]),
          Dict(<<>>), List(<<ProviderTitle>>), List(<<>>), None}

ProviderTags ==
    << <<"u5de5","u4f5c">>, <<"u4f1a","u8bae">>, <<"a">>, <<"b">>, <<"c">> >>

ProviderSubtasks ==
    << <<"s","1">>, <<"s","2">>, <<"s","3">> >>

ProviderLines ==
    << <<"1","."," ","s","1">>, <<" ">>, <<"-"," ","s","2">>, <<"3",")"," ","s","3">> >>

ProviderReasoning == <<"w","h","y">>

PriorityAnswers ==
    {Dict([priority |-> Str(p), reasoning |-> Str(ProviderReasoning)]) :
        p \in {LOW, MEDIUM, HIGH, <<"H","I","G","H">>}}
    \cup {Dict([reasoning |-> Str(ProviderReasoning)]), List(<<>>)}

\* the responses the provider may get to its request for f
Responses(provider, f) ==
    {ResponseError} \cup
    CASE f = "parse_natural_language" ->
            {ResponseJson(v) : v \in ParseAnswers}
            \cup {ResponseText(<<>>, <<>>)}
            \cup (IF provider = OpenAI THEN {ResponseNoToolCalls} ELSE {})
      [] f = "suggest_tags" ->
            {ResponseJson(List(Take(ProviderTags, 2))), ResponseJson(List(<<>>)),
             ResponseJson(Dict([tags |-> List(Take(ProviderTags, 2))])),
             ResponseText(ProviderTags, <<>>), ResponseText(<<>>, <<>>)}
      [] f = "breakdown_task" ->
            {ResponseJson(List(ProviderSubtasks)), ResponseJson(List(<<>>)),
             ResponseJson(List(Take(ProviderSubtasks, 1))),
             ResponseJson(None),
             ResponseText(<<>>, ProviderLines), ResponseText(<<>>, Take(ProviderLines, 1)),
             ResponseText(<<>>, <<>>)}
      [] OTHER ->
            {ResponseJson(v) : v \in PriorityAnswers} \cup {ResponseText(<<>>, <<>>)}

-----------------------------------------------------------------------------
(* State machine                                                           *)

Pending == [k |-> "pending"]

NoArgs == [text |-> <<>>, description |-> None]

\* the request threads that may ask for the service at the same time
MaxThreads == 3

Threads == 1..MaxThreads

\* the singleton as the calls on the service find it: built once, every
\* thread holding that instance
SingletonBuilt ==
    /\ _ai_service = 1
    /\ constructions = 1
    /\ caller = [t \in Threads |-> [pc |-> "done", service |-> 1]]

\* an empty tasks table and an empty collection
StoreEmpty ==
    /\ tasks = <<>>
    /\ collection = {}
    /\ next_id = 1
    /\ deleted = {}
    /\ last = [op |-> "none"]

Idle ==
    /\ pc = "idle"
    /\ func_name = "none"
    /\ args = NoArgs
    /\ index = 0
    /\ invoked = <<>>
    /\ result = None
    /\ used_fallback = FALSE
    /\ ret = Pending

\* the state after AIService() was constructed from a configuration
Init ==
    /\ settings \in Configurations
    /\ importable \in Importables
    /\ providers = AIService__init__(settings, importable)
    /\ now = NowOn(0)
    /\ Idle
    /\ failed_earlier = {}
    /\ SingletonBuilt
    /\ StoreEmpty

\* a caller enters the operation f
Call(f, text, description, nw) ==
    /\ pc = "idle"
    /\ pc' = "trying"
    /\ func_name' = f
    /\ args' = [text |-> text, description |-> description]
    /\ now' = nw
    /\ index' = 1
    /\ invoked' = <<>>
    /\ result' = None
    /\ used_fallback' = FALSE
    /\ ret' = Pending
    /\ UNCHANGED <<settings, importable, providers, singleton_vars, store_vars, failed_earlier>>

\* seeded fault: a provider that raises is taken off the provider list
TryProviderDropsFailed(r) ==
    /\ pc = "trying"
    /\ index <= Len(providers)
    /\ r \in Responses(providers[index], func_name)
    /\ LET outcome == ProviderCall(providers[index], func_name, args, r)
           step == LoopStep(outcome, index)
       IN  /\ invoked' = Append(invoked, [provider |-> providers[index], at |-> index,
                                          response |-> r, outcome |-> outcome])
           /\ pc' = step.pc
           /\ index' = step.index
           /\ result' = step.result
           /\ providers' = IF outcome.k = "raise"
                           THEN SubSeq(providers, 1, index - 1)
                                \o SubSeq(providers, index + 1, Len(providers))
                           ELSE providers
    /\ UNCHANGED <<singleton_vars, store_vars, failed_earlier, settings, importable, now, func_name, args,
                   used_fallback, ret>>

\* _try_providers: the body of the for loop for the provider at index, whose
\* remote call gets the response r
TryProvider(r) ==
    /\ pc = "trying"
    /\ index <= Len(providers)
    /\ r \in Responses(providers[index], func_name)
    /\ LET outcome == ProviderCall(providers[index], func_name, args, r)
           step == LoopStep(outcome, index)
       IN  /\ invoked' = Append(invoked, [provider |-> providers[index], at |-> index,
                                          response |-> r, outcome |-> outcome])
           /\ pc' = step.pc
           /\ index' = step.index
           /\ result' = step.result
    /\ UNCHANGED <<singleton_vars, store_vars, failed_earlier, settings, importable, providers, now, func_name, args,
                   used_fallback, ret>>

\* the rest of the operation, once _try_providers returned a provider's result
\* or, the list exhausted, None
Complete ==
    /\ pc = "post" \/ (pc = "trying" /\ index > Len(providers))
    /\ pc' = "done"
    /\ used_fallback' = ~Truthy(result)
    /\ ret' = Operation(func_name, result, args, now)
    /\ UNCHANGED <<singleton_vars, store_vars, failed_earlier, settings, importable, providers, now, func_name, args,
                   index, invoked, result>>

\* the caller has its answer; the service is ready for the next call
Return ==
    /\ pc = "done"
    /\ pc' = "idle"
    /\ func_name' = "none"
    /\ args' = NoArgs
    /\ now' = NowOn(0)
    /\ index' = 0
    /\ invoked' = <<>>
    /\ result' = None
    /\ used_fallback' = FALSE
    /\ ret' = Pending
    /\ failed_earlier' = failed_earlier \cup
           {invoked[i].provider : i \in {n \in 1..Len(invoked) : invoked[n].outcome.k = "raise"}}
    /\ UNCHANGED <<settings, importable, providers, singleton_vars, store_vars>>

Next ==
    \/ /\ pc = "idle"
       /\ \E f \in FuncNames, text \in Texts, description \in Descriptions :
             /\ TakesDescription(f) \/ description = None
             /\ Call(f, text, description, NowOn(2))
    \/ \E r \in UNION {Responses(p, f) : p \in {OpenAI, Google}, f \in FuncNames} :
          TryProvider(r)
    \/ Complete
    \/ Return

Spec == Init /\ [][Next]_vars

\* the deterministic extractor alone: no provider is configured
ExtractorInit ==
    /\ settings = [ai_provider |-> Mode.auto, openai_api_key |-> FALSE,
                   google_ai_api_key |-> FALSE]
    /\ importable = [openai |-> TRUE, google |-> TRUE]
    /\ providers = AIService__init__(settings, importable)
    /\ now = NowOn(0)
    /\ Idle
    /\ failed_earlier = {}
    /\ SingletonBuilt
    /\ StoreEmpty

ExtractorNext ==
    \/ /\ pc = "idle"
       /\ \E f \in FuncNames, text \in ExtractorTexts,
             description \in ExtractorDescriptions, nw \in Nows :
             /\ TakesDescription(f) \/ description = None
             /\ (f = "parse_natural_language" /\ text \in WeekdayTexts) \/ nw = NowOn(0)
             /\ Call(f, text, description, nw)
    \/ Complete
    \/ Return

ExtractorSpec == ExtractorInit /\ [][ExtractorNext]_vars

\* the first calls of get_ai_service, by threads of the server's thread pool:
\* no instance exists yet and every thread is about to call
SingletonInit ==
    /\ settings \in Configurations
    /\ importable = [openai |-> TRUE, google |-> TRUE]
    /\ providers = AIService__init__(settings, importable)
    /\ now = NowOn(0)
    /\ Idle
    /\ failed_earlier = {}
    /\ _ai_service = 0
    /\ constructions = 0
    /\ caller = [t \in Threads |-> [pc |-> "start", service |-> 0]]
    /\ StoreEmpty

\* get_ai_service in thread t, one step at a time: the test of the global,
\* the construction and assignment, the return of the global
get_ai_service(t) ==
    \/ /\ caller[t].pc = "start"
       /\ caller' = [caller EXCEPT ![t].pc =
                         IF _ai_service = 0 THEN "construct" ELSE "return"]
       /\ UNCHANGED <<_ai_service, constructions, service_vars, store_vars>>
    \/ /\ caller[t].pc = "construct"
       /\ constructions' = constructions + 1
       /\ _ai_service' = constructions + 1
       /\ caller' = [caller EXCEPT ![t].pc = "return"]
       /\ UNCHANGED <<service_vars, store_vars>>
    \/ /\ caller[t].pc = "return"
       /\ caller' = [caller EXCEPT ![t] = [pc |-> "done", service |-> _ai_service]]
       /\ UNCHANGED <<_ai_service, constructions, service_vars, store_vars>>

SingletonNext == \E t \in Threads : get_ai_service(t)

SingletonSpec == SingletonInit /\ [][SingletonNext]_vars

-----------------------------------------------------------------------------
(* The task store and the vector index                                     *)

\* how many tasks are created
MaxTasks == 3

\* the largest top_k asked for
MaxTopK == 2

\* the titles a task is created with or updated to
Titles == {<<"a">>, <<"b">>}

\* what becomes of the index call of a store operation. "ok": the call did
\* its work. "failed": get_vector_service raised (the DummyVectorService
\* stands in), or the embedding or the collection call raised before the
\* collection changed. "removed" (update_task only): the old entry was
\* deleted and add_task then raised.
IndexOutcomes(op) ==
    IF op = "update" THEN {"ok", "failed", "removed"} ELSE {"ok", "failed"}

\* TaskService.create: commit the new task, then try to index it
TaskService_create(title, vec) ==
    /\ next_id <= MaxTasks
    /\ tasks' = tasks @@ (next_id :> title)
    /\ next_id' = next_id + 1
    /\ collection' = IF vec = "ok" THEN collection \cup {next_id} ELSE collection
    /\ last' = [op |-> "create", id |-> next_id, index |-> vec,
                ret |-> Returns([id |-> next_id, title |-> title])]
    /\ UNCHANGED <<deleted, service_vars, singleton_vars>>

\* TaskService.update: None for an unknown id; else commit the new title,
\* then try to replace the index entry. Of the columns of a task only the
\* title is kept; the tags update on a changed title cannot fail the
\* operation (its exception is caught) and is left out.
TaskService_update(task_id, title, vec) ==
    \/ /\ task_id \notin DOMAIN tasks
       /\ last' = [op |-> "update", id |-> task_id, index |-> "unused", ret |-> Returns(None)]
       /\ UNCHANGED <<tasks, collection, next_id, deleted, service_vars, singleton_vars>>
    \/ /\ task_id \in DOMAIN tasks
       /\ tasks' = [tasks EXCEPT ![task_id] = title]
       /\ collection' = CASE vec = "ok" -> collection \cup {task_id}
                           [] vec = "removed" -> collection \ {task_id}
                           [] OTHER -> collection
       /\ last' = [op |-> "update", id |-> task_id, index |-> vec,
                   ret |-> Returns([id |-> task_id, title |-> title])]
       /\ UNCHANGED <<next_id, deleted, service_vars, singleton_vars>>

\* seeded fault: the task is deleted from the store only when the index
\* call went through
TaskService_delete_after_index(task_id, vec) ==
    \/ /\ task_id \notin DOMAIN tasks
       /\ last' = [op |-> "delete", id |-> task_id, index |-> "unused", ret |-> Returns(FALSE)]
       /\ UNCHANGED <<tasks, collection, next_id, deleted, service_vars, singleton_vars>>
    \/ /\ task_id \in DOMAIN tasks
       /\ tasks' = IF vec = "ok" THEN [i \in DOMAIN tasks \ {task_id} |-> tasks[i]]
                   ELSE tasks
       /\ deleted' = deleted \cup {task_id}
       /\ collection' = IF vec = "ok" THEN collection \ {task_id} ELSE collection
       /\ last' = [op |-> "delete", id |-> task_id, index |-> vec, ret |-> Returns(TRUE)]
       /\ UNCHANGED <<next_id, service_vars, singleton_vars>>

\* TaskService.delete: False for an unknown id; else commit the deletion,
\* then try to delete the index entry
TaskService_delete(task_id, vec) ==
    \/ /\ task_id \notin DOMAIN tasks
       /\ last' = [op |-> "delete", id |-> task_id, index |-> "unused", ret |-> Returns(FALSE)]
       /\ UNCHANGED <<tasks, collection, next_id, deleted, service_vars, singleton_vars>>
    \/ /\ task_id \in DOMAIN tasks
       /\ tasks' = [i \in DOMAIN tasks \ {task_id} |-> tasks[i]]
       /\ deleted' = deleted \cup {task_id}
       /\ collection' = IF vec = "ok" THEN collection \ {task_id} ELSE collection
       /\ last' = [op |-> "delete", id |-> task_id, index |-> vec, ret |-> Returns(TRUE)]
       /\ UNCHANGED <<next_id, service_vars, singleton_vars>>

\* VectorService.search: what collection.query may give for n_results =
\* top_k, the ids of the nearest entries, nearest first: any arrangement of
\* top_k ids of the collection, or of all of them when there are fewer
Rankings(top_k) ==
    LET n == IF Cardinality(collection) < top_k THEN Cardinality(collection) ELSE top_k
    IN  {r \in [1..n -> collection] : \A i, j \in 1..n : i # j => r[i] # r[j]}

\* seeded fault: the tasks come in the order of the table, not of the ranking
semantic_search_table_order(top_k, ranking) ==
    /\ top_k \in 1..MaxTopK
    /\ ranking \in Rankings(top_k)
    /\ last' = [op |-> "search", top_k |-> top_k, ranking |-> ranking,
                ret |-> Returns(SelectSeq([i \in 1..MaxTasks |-> i],
                                          LAMBDA i : i \in DOMAIN tasks /\
                                              \E n \in 1..Len(ranking) : ranking[n] = i))]
    /\ UNCHANGED <<tasks, collection, next_id, deleted, service_vars, singleton_vars>>

\* semantic_search: the ids of the ranking, get_by_ids, and the tasks found
\* in the order of the ranking
semantic_search(top_k, ranking) ==
    /\ top_k \in 1..MaxTopK
    /\ ranking \in Rankings(top_k)
    /\ last' = [op |-> "search", top_k |-> top_k, ranking |-> ranking,
                ret |-> Returns(SelectSeq(ranking, LAMBDA tid : tid \in DOMAIN tasks))]
    /\ UNCHANGED <<tasks, collection, next_id, deleted, service_vars, singleton_vars>>

\* semantic_search when get_vector_service, the embedding call or the query
\* raises
semantic_search_raises ==
    /\ last' = [op |-> "search", ret |-> Raises("Exception")]
    /\ UNCHANGED <<tasks, collection, next_id, deleted, service_vars, singleton_vars>>

StoreNext ==
    \/ \E title \in Titles, vec \in IndexOutcomes("create") :
          TaskService_create(title, vec)
    \/ \E task_id \in 1..MaxTasks, title \in Titles, vec \in IndexOutcomes("update") :
          TaskService_update(task_id, title, vec)
    \/ \E task_id \in 1..MaxTasks, vec \in IndexOutcomes("delete") :
          TaskService_delete(task_id, vec)
    \/ \E top_k \in 1..MaxTopK : \E ranking \in Rankings(top_k) :
          semantic_search(top_k, ranking)
    \/ semantic_search_raises

\* the store starts empty, beside a service without providers
StoreSpec == ExtractorInit /\ [][StoreNext]_vars

-----------------------------------------------------------------------------
(* Properties                                                              *)

\* the last provider invoked in this call, and what it gave
LastInvoked == invoked[Len(invoked)]

ProviderAnswered == invoked # <<>> /\ LastInvoked.outcome.k = "return"

ProviderValue == LastInvoked.outcome.v

Done(f) == pc = "done" /\ func_name = f

\* kw occurs in s, by comparing slices
Occurs(kw, s) ==
    \E i \in 1..(Len(s) - Len(kw) + 1) : \A j \in 1..Len(kw) : s[i + j - 1] = kw[j]

HasHighTrigger(s) ==
    LET t == lower(s) IN \E n \in 1..Len(high_keywords) : Occurs(high_keywords[n], t)

HasLowTrigger(s) ==
    LET t == lower(s) IN \E n \in 1..Len(low_keywords) : Occurs(low_keywords[n], t)

\* the text the priority of the call in progress is inferred from
PriorityText ==
    IF func_name = "recommend_priority" /\ args.description # None
    THEN args.text \o <<" ">> \o args.description.s
    ELSE IF func_name = "recommend_priority" THEN args.text \o <<" ">>
    ELSE args.text

\* the priority the keyword rules give a text
ScannedPriority(s) ==
    IF HasHighTrigger(s) THEN HIGH ELSE IF HasLowTrigger(s) THEN LOW ELSE MEDIUM

\* C1: each of the four operations returns a result to its caller and never
\* raises, whatever the provider list and whatever every provider did.
C1_NeverRaises == pc = "done" => ret.k = "return"

\* C2: within one call providers are invoked in construction order, provider
\* k+1 only after providers 1..k all raised, and the call ends without having
\* invoked every provider only when the last one invoked returned.
C2_ProvidersInOrder ==
    /\ Len(invoked) <= Len(providers)
    /\ \A i \in 1..Len(invoked) : invoked[i].provider = providers[i] /\ invoked[i].at = i
    /\ \A i \in 1..(Len(invoked) - 1) : invoked[i].outcome.k = "raise"
    /\ pc = "done" /\ ~ProviderAnswered => Len(invoked) = Len(providers)

C2_Witness ==
    /\ pc = "done" /\ Len(invoked) = 2
    /\ invoked[1].outcome.k = "raise" /\ invoked[2].outcome.k = "return"

\* C3 as claimed: for suggest_tags, breakdown_task and recommend_priority, a
\* provider that returns without raising has its value handed to the caller
\* and the extractor is not used; the extractor answers only when every
\* provider raised or the list is empty.
C3_AnyProviderValueReturned ==
    pc = "done" /\ func_name # "parse_natural_language" =>
        /\ ProviderAnswered => ret = Returns(ProviderValue) /\ ~used_fallback
        /\ used_fallback => ~ProviderAnswered

\* what the extractor gives for the arguments of the call in progress
FallbackValue ==
    CASE func_name = "suggest_tags" -> List(_get_fallback_tags(args.text, args.description))
      [] func_name = "breakdown_task" ->
            List(<<Step.prepare \o args.text, Step.execute \o args.text, Step.finish \o args.text>>)
      [] OTHER -> Tuple(_get_fallback_priority(args.text, args.description))

\* C3 as amended: a provider that returns a non-empty value has exactly that
\* value handed to the caller and the extractor is not used; the extractor
\* answers when every provider raised, the list is empty, or the first provider
\* that did not raise returned an empty value.
C3_NonEmptyProviderValueReturned ==
    pc = "done" /\ func_name # "parse_natural_language" =>
        IF ProviderAnswered /\ Truthy(ProviderValue)
        THEN ret = Returns(ProviderValue) /\ ~used_fallback
        ELSE ret = Returns(FallbackValue) /\ used_fallback

C3_Witness ==
    /\ Done("suggest_tags") /\ Len(invoked) = 2
    /\ ProviderAnswered /\ Truthy(ProviderValue) /\ ret = Returns(ProviderValue)

\* the priority of the result of parse_natural_language or recommend_priority
ResultPriority ==
    IF func_name = "parse_natural_language" THEN ret.v.d.priority ELSE Str(ret.v.items[1])

\* C4 as claimed: for a text with a high-priority trigger word both
\* parse_natural_language and recommend_priority output high, whatever any
\* provider returned and whoever answered.
C4_HighTriggerAlwaysHigh ==
    /\ pc = "done"
    /\ func_name \in {"parse_natural_language", "recommend_priority"}
    /\ HasHighTrigger(PriorityText)
    /\ ret.k = "return"
    => ResultPriority = Str(HIGH)

\* did a provider answer the call with a non-empty dict, a task record
ProviderGaveRecord ==
    ProviderAnswered /\ ProviderValue.k = "dict" /\ Truthy(ProviderValue)

\* C4 as amended: for a text with a high-priority trigger word every result
\* of parse_natural_language has priority high, whoever answered, and a
\* provider's task record is always turned into such a result;
\* recommend_priority outputs high when the fallback answers and otherwise
\* hands back the answering provider's priority unchanged.
C4_HighTriggerOverride ==
    pc = "done" /\ HasHighTrigger(PriorityText) =>
        /\ func_name = "parse_natural_language" /\ ret.k = "return"
              => ResultPriority = Str(HIGH)
        /\ func_name = "parse_natural_language" /\ ProviderGaveRecord
              => ret.k = "return"
        /\ func_name = "recommend_priority" /\ used_fallback
              => ret.k = "return" /\ ResultPriority = Str(HIGH)
        /\ func_name = "recommend_priority" /\ ~used_fallback
              => ret = Returns(ProviderValue)

C4_Witness ==
    /\ Done("parse_natural_language") /\ HasHighTrigger(args.text)
    /\ ProviderAnswered /\ ProviderValue.k = "dict"
    /\ DictGet(ProviderValue.d, "priority", None) = Str(LOW)
    /\ ret.k = "return" /\ ResultPriority = Str(HIGH)

\* C5: with an empty provider list each of the four operations returns a
\* result for every input text: the extractor never raises, and a text
\* without a date cue gets no due date.
C5_ExtractorNeverRaises ==
    pc = "done" /\ providers = <<>> =>
        /\ ret.k = "return"
        /\ func_name = "parse_natural_language" /\ RelativeDays(args.text, now.weekday) = None
              => ret.v.d.due_date = None

\* C6: the priority of every result of parse_natural_language is one of low,
\* medium, high.
C6_PriorityInEnum ==
    Done("parse_natural_language") /\ ret.k = "return" =>
        ResultPriority.k = "str" /\ ResultPriority.s \in TaskPriorityValues

\* the value the variants of low, medium and high a provider writes stand for
Canonical(p) ==
    CASE p \in {<<"h","i","g","h">>, <<"H","I","G","H">>, <<"u9ad8">>, <<"h">>} -> HIGH
      [] p = <<"m","e","d","i","u","m">> -> MEDIUM
      [] p = <<"l","o","w">> -> LOW
      [] OTHER -> <<>>

\* C7: when a provider answered parse_natural_language with a task record,
\* a keyword scan of the text that is not medium decides the priority,
\* whatever priority the provider gave; when the scan is medium the provider's
\* priority, normalised, is kept.
C7_ScanDecidesUnlessMedium ==
    Done("parse_natural_language") /\ ProviderGaveRecord =>
        LET scan == ScannedPriority(args.text)
            said == DictGet(ProviderValue.d, "priority", None)
        IN  /\ ret.k = "return" /\ ~used_fallback
            /\ scan # MEDIUM => ResultPriority = Str(scan)
            /\ scan = MEDIUM /\ said.k = "str" /\ Canonical(said.s) # <<>>
                  => ResultPriority = Str(Canonical(said.s))

C7_Witness ==
    /\ Done("parse_natural_language") /\ ProviderGaveRecord
    /\ ret.k = "return"
    /\ ScannedPriority(args.text) = LOW
    /\ DictGet(ProviderValue.d, "priority", None) = Str(HIGH)
    /\ ResultPriority = Str(LOW)

\* C8: the fallback priority of title + " " + description is high if a high
\* trigger occurs in it (in any case of letters), else low if a low trigger
\* occurs, else medium.
C8_FallbackPriority ==
    Done("recommend_priority") /\ used_fallback =>
        LET scan == ScannedPriority(PriorityText)
        IN  ret = Returns(Tuple(<<scan, CASE scan = HIGH -> Reason.high
                                          [] scan = LOW -> Reason.low
                                          [] OTHER -> Reason.medium>>))

C8_Witness ==
    /\ Done("recommend_priority") /\ used_fallback
    /\ HasHighTrigger(PriorityText) /\ HasLowTrigger(PriorityText)
    /\ ~HasHighTrigger(args.text)
    /\ ResultPriority = Str(HIGH)

\* the cues of the literal day offsets: today, tomorrow, the day after
CueToday(s) == Occurs(DateWords.jin_tian, s) \/ Occurs(DateWords.today, lower(s))

CueDayAfter(s) == Occurs(DateWords.hou_tian, s) \/ Occurs(DateWords.day_after_tomorrow, lower(s))

\* "tomorrow" read as a cue of its own only outside "day after tomorrow"
CueTomorrow(s) ==
    Occurs(DateWords.ming_tian, s) \/ (Occurs(DateWords.tomorrow, lower(s)) /\ ~Occurs(DateWords.day_after_tomorrow, lower(s)))

\* C9: a text whose only literal day cue is today resolves to +0 days,
\* tomorrow to +1 day and the day after tomorrow to +2 days, in Chinese and in
\* English alike.
C9_LiteralDayOffsets ==
    Done("parse_natural_language") /\ used_fallback /\ ret.k = "return" =>
        LET s == args.text
            due == ret.v.d.due_date
        IN  /\ CueToday(s) /\ ~CueTomorrow(s) /\ ~CueDayAfter(s)
                  => due # None /\ due.day = 0
            /\ CueTomorrow(s) /\ ~CueToday(s) /\ ~CueDayAfter(s)
                  => due # None /\ due.day = 1
            /\ CueDayAfter(s) /\ ~CueToday(s) /\ ~CueTomorrow(s)
                  => due # None /\ due.day = 2

\* every two-digit number written in s is an hour of the day, or follows a
\* colon and is a minute of the hour
OnlyClockNumbers(s) ==
    \A i \in 1..(Len(s) - 1) :
        IsDigit(s[i]) /\ IsDigit(s[i + 1]) =>
            \/ 10 * DigitVal(s[i]) + DigitVal(s[i + 1]) <= 23
            \/ i > 1 /\ s[i - 1] = ":" /\ 10 * DigitVal(s[i]) + DigitVal(s[i + 1]) <= 59

\* C10: a text with a relative-date cue (and only times of the day written
\* in it) is due at 23:59:00 of the resolved date when it has no time
\* expression, and at the recognised time, seconds zero, when it has one.
C10_DueTime ==
    /\ Done("parse_natural_language") /\ used_fallback
    /\ RelativeDays(args.text, now.weekday) # None
    /\ OnlyClockNumbers(args.text)
    => LET time_hint == _parse_time_hint(args.text)
           hm == IF time_hint = None THEN <<23, 59>> ELSE time_hint.items
       IN  /\ ret.k = "return"
           /\ ret.v.d.due_date # None
           /\ ret.v.d.due_date.day = RelativeDays(args.text, now.weekday).n
           /\ ret.v.d.due_date.hour = hm[1]
           /\ ret.v.d.due_date.minute = hm[2]
           /\ ret.v.d.due_date.second = 0
           /\ ret.v.d.due_date.fraction = <<>>

\* the text "next <name>" for the n-th name of weekday_map_en
NextDayText(n) == DateWords.next \o <<" ">> \o weekday_map_en[n][1]

\* C11: on every weekday, the text "next W" for a named weekday W is due 1 to
\* 7 days after today, on a date whose weekday is W; when today is W it is due
\* in 7 days.
C11_NextWeekday ==
    \A n \in 1..Len(weekday_map_en) :
        Done("parse_natural_language") /\ used_fallback /\ args.text = NextDayText(n)
        => /\ ret.k = "return"
           /\ ret.v.d.due_date # None
           /\ ret.v.d.due_date.day \in 1..7
           /\ (now.weekday + ret.v.d.due_date.day) % 7 = weekday_map_en[n][2]
           /\ now.weekday = weekday_map_en[n][2] => ret.v.d.due_date.day = 7

\* "next mon" asked on a Monday is due in 7 days
C11_Witness ==
    /\ Done("parse_natural_language") /\ used_fallback
    /\ args.text = NextDayText(8) /\ now.weekday = 0
    /\ ret.k = "return" /\ ret.v.d.due_date # None /\ ret.v.d.due_date.day = 7

\* s has one of the relative-date cues: a literal day, "next <weekday>", or
\* ben zhou / xia zhou with a weekday character
HasDateCue(s) ==
    \/ CueToday(s) \/ CueTomorrow(s) \/ CueDayAfter(s)
    \/ \E n \in 1..Len(weekday_map_en) : Occurs(NextDayText(n), lower(s))
    \/ \E i \in 1..Len(weekday_map), p \in {DateWords.ben_zhou, DateWords.xia_zhou} :
           Occurs(p \o <<weekday_map[i][1]>>, s)

\* C12: a text without a relative-date cue gets due_date null from the
\* fallback parse, also when a time of day is written in it.
C12_NoCueNoDueDate ==
    Done("parse_natural_language") /\ used_fallback /\ ~HasDateCue(args.text)
    => ret.k = "return" /\ ret.v.d.due_date = None

\* s has no am/pm and no period (shang wu, xia wu, wan shang) in it
NoMeridiem(s) ==
    \A m \in {TimeWords.am, TimeWords.pm, TimeWords.a_m_, TimeWords.p_m_,
               TimeWords.shang_wu, TimeWords.xia_wu, TimeWords.wan_shang} :
        ~Occurs(m, lower(s))

\* the hours written in s as H:MM or as H dian
WrittenHours(s) ==
    {IntAt(s, i, d) : <<i, d>> \in
        {<<i, d>> \in (1..Len(s)) \X {1, 2} :
            /\ DigitsAt(s, i, d) /\ ~DigitsAt(s, i - 1, 1)
            /\ i + d <= Len(s)
            /\ \/ s[i + d] = TimeWords.dian
               \/ s[i + d] = ":" /\ DigitsAt(s, i + d + 1, 2)}}

\* C13: an hour H of 1 to 11 written with no am/pm and no period marker, as
\* H:MM or as H dian, is taken as the afternoon hour H + 12.
C13_BareHourAfternoon ==
    /\ Done("parse_natural_language") /\ used_fallback
    /\ ret.k = "return" /\ ret.v.d.due_date # None
    /\ NoMeridiem(args.text)
    => \A h \in 1..11 : WrittenHours(args.text) = {h} => ret.v.d.due_date.hour = h + 12

\* the times written in s as H:MM with am or pm after it: hour, minute, suffix
WrittenClockTimes(s) ==
    {<<IntAt(s, c[1], c[2]), IntAt(s, c[1] + c[2] + 1, 2), c[3]>> : c \in
        {c \in (1..Len(s)) \X {1, 2} \X {TimeWords.am, TimeWords.pm} :
            /\ DigitsAt(s, c[1], c[2]) /\ ~DigitsAt(s, c[1] - 1, 1)
            /\ c[1] + c[2] <= Len(s) /\ s[c[1] + c[2]] = ":"
            /\ DigitsAt(s, c[1] + c[2] + 1, 2)
            /\ StartsAt(lower(s), SkipWs(s, c[1] + c[2] + 3), c[3])}}

\* the hour of the day of the hour h of a 12-hour clock
HourOfDay(h, suffix) ==
    IF suffix = TimeWords.pm THEN (IF h < 12 THEN h + 12 ELSE h)
    ELSE (IF h = 12 THEN 0 ELSE h)

\* C14: a text with a date cue and one time written H:MM am or H:MM pm is
\* due at the hour of the day of H (H + 12 for pm with H from 1 to 11, 0 for
\* 12 am, H for am) and at the minutes MM.
C14_ClockWithMeridiem ==
    /\ Done("parse_natural_language") /\ used_fallback
    /\ HasDateCue(args.text)
    => \A t \in WrittenClockTimes(args.text) :
           /\ WrittenClockTimes(args.text) = {t}
           /\ WrittenHours(args.text) = {t[1]}
           /\ t[1] \in 1..12 /\ t[2] \in 0..59
           => /\ ret.k = "return"
              /\ ret.v.d.due_date # None
              /\ ret.v.d.due_date.hour = HourOfDay(t[1], t[3])
              /\ ret.v.d.due_date.minute = t[2]

\* markers the cleanup erases wherever they stand, and the blank
ErasedMarkers ==
    { <<"u4eca","u5929">>,
      <<"u660e","u5929">>,
      <<"u540e","u5929">>,
      <<"u7d27","u6025">>,
      <<"u4e0d","u6025">>,
      <<"3","u70b9">>,
      <<" ">> }

\* s is made of one or two erased markers and nothing else
OnlyMarkers(s) ==
    \E a \in ErasedMarkers, b \in ErasedMarkers \cup {<<>>} : s = a \o b

\* C15: the title of a fallback parse is never empty, and a text from which
\* the cleanup erases everything is returned as the title unmodified.
C15_TitleNeverEmpty ==
    Done("parse_natural_language") /\ used_fallback /\ ret.k = "return"
    => /\ ret.v.d.title.s # <<>>
       /\ OnlyMarkers(args.text) => ret.v.d.title.s = args.text

\* "jin tian" and a marked priority: all of the text is erased, and all of it
\* is the title
C15_Witness ==
    /\ Done("parse_natural_language") /\ used_fallback /\ ret.k = "return"
    /\ args.text = DateWords.jin_tian \o <<"u7d27","u6025">>
    /\ OnlyMarkers(args.text)
    /\ ret.v.d.title.s = args.text

\* C16: cleaning the title of a fallback parse again gives the same title.
C16_CleanupIdempotent ==
    Done("parse_natural_language") /\ used_fallback /\ ret.k = "return"
    => _clean_title(ret.v.d.title.s) = ret.v.d.title.s

\* the content the tags of the call in progress are inferred from
TagContent == lower(TitleAndDescription(args.text, args.description))

\* the trigger words of the seven categories, in the order of the categories
CategoryKeywords ==
    << work_keywords, study_keywords, shopping_keywords, health_keywords,
       personal_keywords, finance_keywords, travel_keywords >>

\* the labels of the work class
WorkLabels == {Tag.Meeting, Tag.Code, Tag.Review, Tag.Project, Tag.Report, Tag.Work}

\* the labels of each category
CategoryLabels ==
    << WorkLabels, {Tag.Study}, {Tag.Shopping}, {Tag.Health}, {Tag.Personal},
       {Tag.Finance}, {Tag.Travel} >>

\* the categories with a trigger word in the content
Triggered(content) ==
    {c \in 1..Len(CategoryKeywords) :
        \E n \in 1..Len(CategoryKeywords[c]) : Occurs(CategoryKeywords[c][n], content)}

\* the i-th least element of a set of numbers
NthOf(S, i) == CHOOSE c \in S : Cardinality({d \in S : d < c}) = i - 1

\* a word of the work refinements occurs in the content
WorkCue(content) ==
    \E f \in DOMAIN work_refinements :
        \E n \in 1..Len(work_refinements[f]) : Occurs(work_refinements[f][n], content)

\* C17: the inferred tags are 1 to 3 different labels, one for each of the
\* first three triggered categories in the order of the categories; with no
\* category triggered the one label is "Other", or "Work" when a work cue is
\* in the content.
C17_TagsOnePerCategory ==
    Done("suggest_tags") /\ used_fallback
    => /\ ret.k = "return"
       /\ LET tags == ret.v.items
              hit == Triggered(TagContent)
          IN  /\ Len(tags) \in 1..3
              /\ \A i, j \in 1..Len(tags) : i # j => tags[i] # tags[j]
              /\ hit # {} =>
                     /\ Len(tags) = IF Cardinality(hit) < 3 THEN Cardinality(hit) ELSE 3
                     /\ \A i \in 1..Len(tags) : tags[i] \in CategoryLabels[NthOf(hit, i)]
              /\ hit = {} =>
                     tags = IF WorkCue(TagContent) THEN <<Tag.Work>> ELSE <<Tag.Other>>

\* the refinements of the work class, most specific first, with their labels
WorkPrecedence ==
    << <<work_refinements.meeting, Tag.Meeting>>,
       <<work_refinements.code, Tag.Code>>,
       <<work_refinements.review, Tag.Review>>,
       <<work_refinements.project, Tag.Project>>,
       <<work_refinements.report, Tag.Report>> >>

\* a word of the p-th refinement occurs in the content
RefinementOccurs(p, content) ==
    \E n \in 1..Len(WorkPrecedence[p][1]) : Occurs(WorkPrecedence[p][1][n], content)

\* the label of the first refinement with a word in the content, else "Work"
MostSpecificWorkLabel(content) ==
    LET found == {p \in 1..Len(WorkPrecedence) : RefinementOccurs(p, content)}
    IN  IF found = {} THEN Tag.Work
        ELSE WorkPrecedence[CHOOSE p \in found : \A q \in found : p <= q][2]

\* C18: when a work trigger is in the content, exactly one of the inferred
\* tags is a work-class label, and it is the label of the first of meeting,
\* code, review, project, report whose words occur, else "Work".
C18_WorkLabelPrecedence ==
    Done("suggest_tags") /\ used_fallback /\ 1 \in Triggered(TagContent)
    => /\ ret.k = "return"
       /\ Cardinality({i \in 1..Len(ret.v.items) : ret.v.items[i] \in WorkLabels}) = 1
       /\ \E i \in 1..Len(ret.v.items) : ret.v.items[i] = MostSpecificWorkLabel(TagContent)

\* tags were inferred for "meeting code", which has the words of two
\* refinements, and the label is the one of the meeting
C18_Witness ==
    /\ Done("suggest_tags") /\ used_fallback
    /\ 1 \in Triggered(TagContent)
    /\ RefinementOccurs(1, TagContent) /\ RefinementOccurs(2, TagContent)
    /\ ret.k = "return"
    /\ ret.v.items = <<Tag.Meeting>>

\* the markers of the example and its punctuation: ming tian, xia wu 3 dian,
\* hen zhong yao and the full-width comma
ExampleMarkers ==
    { DateWords.ming_tian, TimeWords.xia_wu \o <<"3", TimeWords.dian>>,
      <<"u5f88","u91cd","u8981">>, <<"uff0c">> }

\* C19: with no provider, the parse of the example has priority high, is due
\* tomorrow at 15:00, and its title is the text without ming tian, xia wu 3
\* dian, hen zhong yao and the comma.
C19_MeetingExample ==
    Done("parse_natural_language") /\ used_fallback /\ args.text = MeetingExample
    => /\ ret.k = "return"
       /\ ret.v.d.priority = Str(HIGH)
       /\ ret.v.d.due_date # None
       /\ ret.v.d.due_date.day = 1
       /\ ret.v.d.due_date.hour = 15
       /\ ret.v.d.due_date.minute = 0
       /\ ret.v.d.due_date.second = 0
       /\ \A m \in ExampleMarkers : ~Occurs(m, ret.v.d.title.s)
       /\ ret.v.d.title.s = MeetingTitle

\* the example was parsed by the extractor and is due at 15:00
C19_Witness ==
    /\ Done("parse_natural_language") /\ used_fallback
    /\ providers = <<>>
    /\ args.text = MeetingExample
    /\ ret.k = "return"
    /\ ret.v.d.due_date # None /\ ret.v.d.due_date.hour = 15

\* what the extractor makes of the example
ParsedMeetingExample == AIService_parse_natural_language(None, MeetingExample, now).v.d

\* the call in progress has the arguments parse-and-create takes from the
\* parsed example
TagsOfParsedExample ==
    /\ args.text = ParsedMeetingExample.title.s
    /\ args.description = ParsedMeetingExample.description

\* C20: with no provider, the tags parse-and-create gives the task parsed
\* from the example, inferred from the parsed title, include the label
\* "Meeting".
C20_MeetingExampleTags ==
    Done("suggest_tags") /\ used_fallback /\ TagsOfParsedExample
    => LET tags == parse_and_create_task_tags(ParsedMeetingExample, ret)
       IN  \E i \in 1..Len(tags.items) : tags.items[i] = Tag.Meeting

\* the description of the call in progress has no trigger word of a category
\* other than work
NoOtherCategory ==
    \/ args.description = None
    \/ Triggered(lower(args.description.s)) \subseteq {1}

\* the labels of the tags returned by the call in progress
ReturnedTags == {ret.v.items[i] : i \in 1..Len(ret.v.items)}

\* C21: the tags inferred for the title "wan cheng xiang mu bao gao", with no
\* description or one without a trigger of another category, have a
\* work-class label and none of Shopping, Health, Travel.
C21_ReportTitleTags ==
    Done("suggest_tags") /\ used_fallback /\ args.text = ReportTitle /\ NoOtherCategory
    => /\ ret.k = "return"
       /\ ReturnedTags \cap WorkLabels # {}
       /\ ReturnedTags \cap {Tag.Shopping, Tag.Health, Tag.Travel} = {}

\* the tags of the title with the description of the example were inferred
C21_Witness ==
    /\ Done("suggest_tags") /\ used_fallback
    /\ args.text = ReportTitle /\ args.description = Str(ReportDescription)
    /\ NoOtherCategory
    /\ ret.k = "return" /\ ret.v.items = <<Tag.Project>>

\* C22: breakdown_task returns a list of 3 to 7 subtasks, whether a provider's
\* JSON answer, a provider's lines or the extractor gave it; the extractor
\* gives the three steps prepare, execute, finish in that order.
C22_ThreeToSevenSubtasks ==
    Done("breakdown_task")
    => /\ ret.k = "return"
       /\ ret.v.k = "list"
       /\ Len(ret.v.items) \in 3..7
       /\ used_fallback =>
              ret.v.items = << Step.prepare \o args.text, Step.execute \o args.text,
                               Step.finish \o args.text >>

\* the provider's API key is configured
HasKey(p) == IF p = OpenAI THEN settings.openai_api_key ELSE settings.google_ai_api_key

\* the provider's constructor succeeds (available = true)
Constructs(p) == IF p = OpenAI THEN importable.openai ELSE importable.google

\* the configured mode names the provider, or is "auto"
ModeAdmits(p) ==
    lower(settings.ai_provider) \in
        {Mode.auto, IF p = OpenAI THEN Mode.openai ELSE Mode.google}

\* the provider is in the provider list
Listed(p) == \E i \in 1..Len(providers) : providers[i] = p

\* the provider was invoked in the call in progress
Invoked(p) == \E i \in 1..Len(invoked) : invoked[i].provider = p

\* C23: a provider without credentials or whose construction failed is not
\* in the provider list and is not invoked, at any point of any call; a
\* provider that was admitted stays listed during and after every call.
C23_UnavailableExcluded ==
    \A p \in {OpenAI, Google} :
        /\ ~HasKey(p) \/ ~Constructs(p) => ~Listed(p) /\ ~Invoked(p)
        /\ HasKey(p) /\ Constructs(p) /\ ModeAdmits(p) => Listed(p)

\* OpenAI has a key but its construction failed; a call ended in which only
\* Google was invoked, and it raised
C23_Witness ==
    /\ pc = "done"
    /\ HasKey(OpenAI) /\ ~Constructs(OpenAI) /\ ModeAdmits(OpenAI)
    /\ Len(invoked) = 1 /\ invoked[1].provider = Google
    /\ invoked[1].outcome.k = "raise"
    /\ providers = <<Google>>

\* C24: whatever the interleaving of the first calls of get_ai_service, the
\* service is constructed at most once, every thread that has returned holds
\* an instance, and all of them hold the same one.
C24_ConstructedOnce ==
    /\ constructions <= 1
    /\ \A t \in Threads : caller[t].pc = "done" => caller[t].service # 0
    /\ \A t, u \in Threads :
           caller[t].pc = "done" /\ caller[u].pc = "done"
           => caller[t].service = caller[u].service

\* the position of a listed provider in the provider list
Position(p) == CHOOSE i \in 1..Len(providers) : providers[i] = p

\* the configuration admits both providers: OpenAI is built first
BothAdmitted ==
    \A p \in {OpenAI, Google} : HasKey(p) /\ Constructs(p) /\ ModeAdmits(p)

\* the provider list is in the state construction left it in
AsConstructed ==
    /\ \A p \in {OpenAI, Google} : Listed(p) <=> HasKey(p) /\ Constructs(p) /\ ModeAdmits(p)
    /\ Len(providers) = Cardinality({p \in {OpenAI, Google} : Listed(p)})
    /\ BothAdmitted => providers = <<OpenAI, Google>>

\* C25 as claimed: the provider list stays as construction left it, and a
\* provider that raised in an earlier call is invoked in every later call.
C25_AttemptedInEveryCall ==
    /\ AsConstructed
    /\ \A p \in failed_earlier : Listed(p)
    /\ pc = "done" => \A p \in failed_earlier : Invoked(p)

\* C25 as amended: the provider list stays as construction left it, and a
\* provider that raised in an earlier call is invoked in every later call
\* in which no provider before it in the list returned.
C25_AttemptedWhenReached ==
    /\ AsConstructed
    /\ \A p \in failed_earlier : Listed(p)
    /\ pc = "done" =>
           \A p \in failed_earlier :
               \/ Invoked(p)
               \/ \E i \in 1..Len(invoked) :
                      invoked[i].outcome.k = "return" /\ invoked[i].at < Position(p)

\* Google raised in an earlier call; in this call OpenAI raised, Google was
\* invoked again and returned
C25_Witness ==
    /\ pc = "done"
    /\ Google \in failed_earlier
    /\ providers = <<OpenAI, Google>>
    /\ Len(invoked) = 2
    /\ invoked[2].provider = Google /\ invoked[2].outcome.k = "return"

\* the response is no JSON, and for operation f the text patterns find
\* nothing in it: no quoted substring for suggest_tags, no non-blank line
\* for breakdown_task, and no pattern at all for the other two
Unusable(f, r) ==
    /\ r.t = "text"
    /\ f = "suggest_tags" => r.quoted = <<>>
    /\ f = "breakdown_task" => SubtaskLines(r.lines) = <<>>

\* C26: a provider whose remote response is no JSON and gives nothing to the
\* text patterns raises, and the call goes on to the next provider or, after
\* the last, to the extractor.
C26_UnusableResponseRaises ==
    \A i \in 1..Len(invoked) :
        Unusable(func_name, invoked[i].response)
        => /\ invoked[i].outcome.k = "raise"
           /\ pc = "done" => IF i < Len(providers)
                             THEN Len(invoked) > i
                             ELSE used_fallback

\* "ben zhou" or "xia zhou" followed by the n-th weekday character
ZhouText(week, n) == week \o <<weekday_map[n][1]>>

\* C27: on every weekday, "ben zhou W" is due 0 to 6 days after today and
\* "xia zhou W" is due W - today's weekday + 7 days after today, which is a
\* day of the next calendar week; in both cases the weekday of the due date
\* is W.
C27_ChineseWeekday ==
    \A n \in 1..Len(weekday_map) :
        /\ Done("parse_natural_language") /\ used_fallback
             /\ args.text = ZhouText(DateWords.ben_zhou, n)
           => /\ ret.k = "return"
              /\ ret.v.d.due_date # None
              /\ ret.v.d.due_date.day \in 0..6
              /\ (now.weekday + ret.v.d.due_date.day) % 7 = weekday_map[n][2]
        /\ Done("parse_natural_language") /\ used_fallback
             /\ args.text = ZhouText(DateWords.xia_zhou, n)
           => /\ ret.k = "return"
              /\ ret.v.d.due_date # None
              /\ ret.v.d.due_date.day = weekday_map[n][2] - now.weekday + 7
              /\ ret.v.d.due_date.day \in 1..13
              /\ (now.weekday + ret.v.d.due_date.day) \div 7 = 1
              /\ (now.weekday + ret.v.d.due_date.day) % 7 = weekday_map[n][2]

\* "ben zhou yi" (Monday) asked on a Wednesday is due in 5 days
C27_Witness ==
    /\ Done("parse_natural_language") /\ used_fallback
    /\ args.text = ZhouText(DateWords.ben_zhou, 1) /\ now.weekday = 2
    /\ ret.k = "return" /\ ret.v.d.due_date # None /\ ret.v.d.due_date.day = 5

\* the configured mode, in lower case as AIService.__init__ reads it
ConfiguredMode == lower(settings.ai_provider)

\* the one-provider list of p when p has a key and constructs, else the
\* empty list
Only(p) == IF HasKey(p) /\ Constructs(p) THEN <<p>> ELSE <<>>

FoundTask == last.index # "unused"

\* C29: whatever became of the index calls, the store holds exactly the
\* tasks created and not deleted, and the last create, update or delete
\* returned its normal result for the state of the store.
C29_IndexFailureHarmless ==
    /\ DOMAIN tasks = (1..(next_id - 1)) \ deleted
    /\ last.op = "create" =>
           /\ last.ret.k = "return"
           /\ last.id \in DOMAIN tasks
           /\ last.ret.v = [id |-> last.id, title |-> tasks[last.id]]
    /\ last.op = "update" =>
           IF FoundTask
           THEN /\ last.id \in DOMAIN tasks
                /\ last.ret = Returns([id |-> last.id, title |-> tasks[last.id]])
           ELSE last.id \notin DOMAIN tasks /\ last.ret = Returns(None)
    /\ last.op = "delete" =>
           /\ last.id \notin DOMAIN tasks
           /\ last.ret = Returns(FoundTask)
           /\ FoundTask => last.id \in deleted

\* a task was deleted while the index call failed: the deletion returned
\* True, the index still holds the id, and it lacks a task of the store
C29_Witness ==
    /\ last.op = "delete" /\ last.index = "failed"
    /\ last.ret = Returns(TRUE)
    /\ last.id \in collection /\ last.id \notin DOMAIN tasks
    /\ \E id \in DOMAIN tasks : id \notin collection

\* the place of an id in the ranking of the last search
Rank(tid) == CHOOSE n \in 1..Len(last.ranking) : last.ranking[n] = tid

\* C30: a search that returns gives tasks of the store only, each once, at
\* most top_k of them, in the order of the index's ranking, and leaves out of
\* the ranking only the ids that are not in the store.
C30_SearchResults ==
    last.op = "search" /\ last.ret.k = "return"
    => LET found == last.ret.v
       IN  /\ Len(found) <= last.top_k
           /\ \A i \in 1..Len(found) :
                  /\ found[i] \in DOMAIN tasks
                  /\ \E n \in 1..Len(last.ranking) : last.ranking[n] = found[i]
           /\ \A i, j \in 1..Len(found) :
                  i < j => found[i] # found[j] /\ Rank(found[i]) < Rank(found[j])
           /\ \A n \in 1..Len(last.ranking) :
                  last.ranking[n] \in DOMAIN tasks
                  => \E i \in 1..Len(found) : found[i] = last.ranking[n]

\* the index ranked the id of a deleted task first and a task of the store
\* second; the search returned the second only
C30_Witness ==
    /\ last.op = "search" /\ last.ret.k = "return"
    /\ Len(last.ranking) = 2
    /\ last.ranking[1] \in deleted
    /\ last.ret.v = <<last.ranking[2]>>

=============================================================================
